---- MODULE Spec2Model ----
(***************************************************************************)
(* Cap lifecycle of the admin bot: the item store (announcedCaps), the     *)
(* poll cycle, the Approve / Reject / Edit handlers, the message refresh   *)
(* and the ledger client, as a state machine.  One action is one handler   *)
(* run to completion (the dispatcher handles one update at a time).        *)
(***************************************************************************)
EXTENDS Integers, Sequences, FiniteSets, TLC

(***************************************************************************)
(* Bounds of the model.                                                    *)
(***************************************************************************)
\* successful POSTs counted per item and kind; the counters saturate here
MaxPosts == 2
\* message ids handed out per item and chat
MaxMessageId == 2
\* entries of newCaps and newSales together in one poll response
MaxBatch == 1
\* items in the store that findCapByGiftNumber searches
MaxStored == 3
\* the transactions the ledger of the registration flows holds at most
MaxTransactions == 4

(***************************************************************************)
(* Input domains.                                                          *)
(***************************************************************************)
\* marketplace addresses (offchainGetgemsAddress) the backend reports
Keys == {"X", "Y"}
\* staticChatIds: the allow-list, and the initial subscriptions
Chats == {1, 2}

\* string | null fields
NullStr == "<null>"
Names == {"A", "B"}

\* salePriceTon: string | null.  A numeric string is held as its value in
\* units of half a nano (5 * 10^-10 TON), so that the floor of tonToNano is
\* visible and 1 TON still is a 32-bit number.
PriceNull == [kind |-> "null", units |-> 0]
PriceText == [kind |-> "text", units |-> 0]
PriceNum(u) == [kind |-> "num", units |-> u]
\* 10 ** 9 nano in one TON
NanoPerTon == 1000000000
\* "0", "0.0000000005", "0.0000000015", "1"
OneTon == 2 * NanoPerTon

\* saleTime?: number | null, and the Infinity an edit can store
TimeUndefined == [kind |-> "undefined", ms |-> 0]
TimeNull == [kind |-> "null", ms |-> 0]
TimeInfinity == [kind |-> "infinity", ms |-> 0]
TimeNum(t) == [kind |-> "num", ms |-> t]
\* detectedAt of every reported item, and the sale time of a sale event
DetectedAtMs == 1600
SaleAtMs == 1700

\* giftId of the item at an address (number, not editable)
GiftIdOf(address) == IF address = "X" THEN 7 ELSE 8

(***************************************************************************)
(* Ledger records (ApiRecord) and extractIdentifier.                       *)
(* A record is an object with the own keys TxID and id and an optional     *)
(* nested data object with the same keys; 0 stands for a key that is       *)
(* absent or whose value is not a finite number or non-blank string.       *)
(***************************************************************************)
NullRecord == [kind |-> "null", hasData |-> FALSE, dTxID |-> 0, dId |-> 0, TxID |-> 0, id |-> 0]
ObjRecord(hasData, dTxID, dId, TxID, id) ==
    [kind |-> "object", hasData |-> hasData, dTxID |-> dTxID, dId |-> dId, TxID |-> TxID, id |-> id]

\* {data: {TxID: n}}
RespData(n) == ObjRecord(TRUE, n, 0, 0, 0)
\* {TxID: "", id: n, data: {message: "ok"}}
RespTop(n) == ObjRecord(TRUE, 0, 0, 0, n)
\* {message: "created"}
RespNoId == ObjRecord(FALSE, 0, 0, 0, 0)

\* visit(candidate): the first key of ["TxID", ..., "id"] with a usable value
visitKeys(TxID, id) == IF TxID # 0 THEN TxID ELSE id

extractIdentifier(record) ==
    IF record.kind = "null" THEN 0
    ELSE LET direct == IF record.hasData
                       THEN visitKeys(record.dTxID, record.dId)
                       ELSE \* root is the record: its keys, no nested object
                            visitKeys(record.TxID, record.id)
         IN IF direct # 0 THEN direct
            ELSE \* visit(record): own keys first; data was visited already
                 visitKeys(record.TxID, record.id)

(***************************************************************************)
(* tonToNano: BigNumber(value ?? 0) * 10^9, floored; "0" when the value is *)
(* not finite or negative.  The result is the nano amount as a number.     *)
(***************************************************************************)
tonToNanoRoundsUp(value) ==
    IF value.kind # "num" \/ value.units < 0 THEN 0 ELSE (value.units + 1) \div 2
tonToNano(value) ==
    IF value.kind = "null" THEN 0
    ELSE IF value.kind = "text" THEN 0
    ELSE IF value.units < 0 THEN 0
    ELSE value.units \div 2

(***************************************************************************)
(* State.                                                                  *)
(***************************************************************************)
VARIABLES
    \* storage.ts announcedCaps: address -> StoredCap (a function on the stored keys)
    announcedCaps,
    \* index: the chats subscribed to cap alerts
    subscribedChats,
    \* the ledger service: successful POSTs per item key (buy, cap, sell)
    \* and successful markSold PATCHes
    ledgerPosts,
    \* capManagement fieldSelectState: chat -> address whose Edit was pressed
    fieldSelectState,
    \* capManagement editState: user -> the address and field awaiting a text
    editState,
    \* the handler that ran last: what it did and what it replied
    lastOp,
    \* storage.ts announcedFilePath: the caps of the snapshot file, as written
    announcedFile,
    \* capManagement currentPollPromise: the promise of the cycle in flight
    currentPollPromise,
    \* the executions of pollOnce that have started and not yet settled
    pollOnceRunning,
    \* the approve_ handlers suspended at an await of approveCap
    approvals,
    \* registerSellBuyBurn registerFlowState: user -> the stage of the dialog
    registerFlowState,
    \* registerMultipleSells flowState: user -> the stage of the dialog
    flowState,
    \* the ledger service: the transactions created by POST /capStr/transactions
    \* of the registration flows, in order; a transaction's identifier is its
    \* position
    ledgerTransactions

\* the state of the registration flows
registration == <<registerFlowState, flowState, ledgerTransactions>>

vars == <<announcedCaps, subscribedChats, ledgerPosts, fieldSelectState, editState, lastOp,
          announcedFile, currentPollPromise, pollOnceRunning, approvals, registration>>

has(address) == address \in DOMAIN announcedCaps

\* a CapSummary as the poll endpoint reports it
CapSummary(address, name, salePriceTon, saleTime) ==
    [offchainGetgemsAddress |-> address, name |-> name,
     salePriceTon |-> salePriceTon, saleTime |-> saleTime]

\* the StoredCap literal of pollOnce and processSaleAnnouncements
NewStoredCap(item, state) ==
    [item |-> item,
     state |-> state,
     publishedChatIds |-> subscribedChats,
     messageIds |-> [c \in Chats |-> 0],
     isEdited |-> FALSE,
     buyTransactionRecord |-> NullRecord,
     capStrRecord |-> NullRecord,
     hasManualChanges |-> FALSE,
     sellTransactionRecord |-> NullRecord]

(***************************************************************************)
(* The snapshot file.  persistAnnouncedAddresses writes the values of the  *)
(* map as JSON; loadAnnouncedCaps reads them back at start-up.             *)
(***************************************************************************)
\* JSON.stringify of a saleTime: an undefined property is left out, and
\* Infinity is written as null
toJson(stored) ==
    [stored EXCEPT !.item.saleTime = IF @.kind = "infinity" THEN TimeNull ELSE @]

\* the file after a write of the map that succeeds
persistAnnouncedAddresses(caps) == [k \in DOMAIN caps |-> toJson(caps[k])]

\* loadAnnouncedCaps, one entry: stored.item.saleTime ?? null (the other
\* defaults are of properties that are always written)
loadStoredCap(entry) ==
    [entry EXCEPT !.item.saleTime = IF @.kind = "undefined" THEN TimeNull ELSE @]

\* the maps loadAnnouncedCaps can build: each entry is set under its item's
\* address, a later entry of the same address replacing an earlier one
LoadedCaps(file) ==
    LET addresses == {file[k].item.offchainGetgemsAddress : k \in DOMAIN file}
    IN {caps \in [addresses -> {loadStoredCap(file[k]) : k \in DOMAIN file}] :
            \A a \in addresses : caps[a].item.offchainGetgemsAddress = a}

(***************************************************************************)
(* Keyboards and message delivery.                                         *)
(***************************************************************************)
EmptyKeyboard == [kind |-> "empty", address |-> ""]
buildActionKeyboard(capAddress) == [kind |-> "actions", address |-> capAddress]

shouldDisableActionsApprovedOnly(state) == state \in {"APPROVED", "SOLD_APPROVED"}
shouldDisableActions(state) ==
    state \in {"APPROVED", "REJECTED", "SOLD_APPROVED", "SOLD_REJECTED"}

replyMarkup(address, state) ==
    IF shouldDisableActions(state) THEN EmptyKeyboard ELSE buildActionKeyboard(address)

\* what the messaging gateway does with one chat's edit ("ok", "not modified"
\* or "fail") and send ("ok" or "fail");
\* one outcome name per distinguishable behaviour of a chat's delivery
DeliveryOutcome(name) ==
    CASE name = "edited" -> [edit |-> "ok", send |-> "ok"]
      [] name = "unchanged" -> [edit |-> "not modified", send |-> "ok"]
      [] name = "resent" -> [edit |-> "fail", send |-> "ok"]
      [] OTHER -> [edit |-> "fail", send |-> "fail"]
Deliveries == [Chats -> {"edited", "unchanged", "resent", "lost"}]

\* a message handed to the gateway and accepted by it
Sent(address, chatId, kind, state, keyboard) ==
    [address |-> address, chatId |-> chatId, kind |-> kind, state |-> state,
     keyboard |-> keyboard]

\* refreshCapMessage, one chat of the loop: the edit is tried when a message id
\* is stored; the send follows when there is none or the edit failed otherwise
refreshEdits(stored, chatId, d) ==
    stored.messageIds[chatId] # 0 /\ DeliveryOutcome(d[chatId]).edit = "ok"
refreshSkipsOnlyEdited(stored, chatId, d) ==
    stored.messageIds[chatId] # 0 /\ DeliveryOutcome(d[chatId]).edit = "ok"
refreshSkips(stored, chatId, d) ==
    stored.messageIds[chatId] # 0 /\ DeliveryOutcome(d[chatId]).edit \in {"ok", "not modified"}
refreshSendsUntilFailure(stored, chatId, d) ==
    /\ ~refreshSkips(stored, chatId, d)
    /\ DeliveryOutcome(d[chatId]).send = "ok"
    /\ \A c \in Chats : c < chatId => d[c] # "lost"
refreshSends(stored, chatId, d) ==
    ~refreshSkips(stored, chatId, d) /\ DeliveryOutcome(d[chatId]).send = "ok"

targetChats(stored) == stored.publishedChatIds \cup subscribedChats

\* refreshCapMessage(address, stored): the stored cap after the loop
refreshCapMessage(address, stored, d) ==
    LET sends == {c \in targetChats(stored) : refreshSends(stored, c, d)}
    IN [stored EXCEPT
          !.messageIds = [c \in Chats |-> IF c \in sends THEN @[c] + 1 ELSE @[c]],
          !.publishedChatIds = @ \cup sends]

\* the messages the refresh delivered
refreshSent(address, stored, d) ==
    LET keyboard == replyMarkup(address, stored.state)
    IN {Sent(address, c, "edit", stored.state, keyboard) :
            c \in {t \in targetChats(stored) : refreshEdits(stored, t, d)}}
       \cup
       {Sent(address, c, "send", stored.state, keyboard) :
            c \in {t \in targetChats(stored) : refreshSends(stored, t, d)}}

\* console.error of a delivery the gateway refused
Failure(address, chatId, kind) == [address |-> address, chatId |-> chatId, kind |-> kind]

\* the failures the refresh logged: "Failed to update message in chat" and
\* "Failed to send message in chat"
refreshFailed(address, stored, d) ==
    {Failure(address, c, "edit") :
        c \in {t \in targetChats(stored) :
                  stored.messageIds[t] # 0 /\ DeliveryOutcome(d[t]).edit = "fail"}}
    \cup
    {Failure(address, c, "send") :
        c \in {t \in targetChats(stored) :
                  ~refreshSkips(stored, t, d) /\ DeliveryOutcome(d[t]).send = "fail"}}

\* broadcastMessage(message, capAddress, {disableActions}): one send per
\* subscribed chat, the id recorded on the stored cap
broadcastMessageForgetsIds(address, stored, d) == stored
broadcastMessage(address, stored, d) ==
    LET sends == {c \in subscribedChats : DeliveryOutcome(d[c]).send = "ok"}
    IN [stored EXCEPT
          !.messageIds = [c \in Chats |-> IF c \in sends THEN @[c] + 1 ELSE @[c]],
          !.publishedChatIds = @ \cup sends]

\* "Failed to deliver alert to chat"
broadcastFailed(address, stored, d) ==
    {Failure(address, c, "send") :
        c \in {t \in subscribedChats : DeliveryOutcome(d[t]).send = "fail"}}

broadcastSent(address, stored, d) ==
    LET keyboard == replyMarkup(address, stored.state)
    IN {Sent(address, c, "send", stored.state, keyboard) :
            c \in {t \in subscribedChats : DeliveryOutcome(d[t]).send = "ok"}}

\* the message ids stay within the bound
idsBounded(stored) == \A c \in Chats : stored.messageIds[c] <= MaxMessageId

\* a gateway that accepts every edit and every send
Delivered == [c \in Chats |-> "edited"]

(***************************************************************************)
(* Sale merge.                                                             *)
(***************************************************************************)
\* update.x ?? base.x for a string | null field
coalesceStr(update, base) == IF update # NullStr THEN update ELSE base
\* update.salePriceTon ?? base.salePriceTon ?? null
coalescePrice(update, base) == IF update.kind # "null" THEN update ELSE base
\* update.saleTime !== undefined ? update.saleTime : base?.saleTime ?? null
mergeSaleTime(update, base) ==
    IF update.kind # "undefined" THEN update
    ELSE IF base.kind \in {"undefined", "null"} THEN TimeNull ELSE base

mergeCapSummary(base, update) ==
    [offchainGetgemsAddress |-> update.offchainGetgemsAddress,
     name |-> coalesceStr(update.name, base.name),
     salePriceTon |-> coalescePrice(update.salePriceTon, base.salePriceTon),
     saleTime |-> mergeSaleTime(update.saleTime, base.saleTime)]

determineSaleStateForgetsReject(previousState) ==
    IF previousState \in {"APPROVED", "APPROVED_SOLD"} THEN "APPROVED_SOLD"
    ELSE IF previousState = "SOLD_APPROVED" THEN "SOLD_APPROVED"
    ELSE "SOLD_PUBLISHED"
determineSaleState(previousState) ==
    CASE previousState \in {"APPROVED", "APPROVED_SOLD"} -> "APPROVED_SOLD"
      [] previousState \in {"REJECTED", "SOLD_REJECTED"} -> "SOLD_REJECTED"
      [] previousState = "SOLD_APPROVED" -> "SOLD_APPROVED"
      [] OTHER -> "SOLD_PUBLISHED"

isSoldState(state) ==
    state \in {"SOLD_PUBLISHED", "SOLD_APPROVED", "SOLD_REJECTED", "APPROVED_SOLD"}

\* sale.saleTime, else sale.detectedAt (always a number)
normalizeSale(sale) ==
    [sale EXCEPT !.saleTime =
        IF @.kind \in {"undefined", "null"} THEN TimeNum(DetectedAtMs) ELSE @]

\* existing.hasManualChanges === true
preferExistingNever(existing) == FALSE
preferExisting(existing) == existing.hasManualChanges

\* processSaleAnnouncements, the branch of a known address: the merged cap
mergeSaleKeepsIsEdited(existing, sale) ==
    LET normalizedSale == normalizeSale(sale)
        mergedItem == IF preferExisting(existing)
                      THEN mergeCapSummary(normalizedSale, existing.item)
                      ELSE mergeCapSummary(existing.item, normalizedSale)
    IN [existing EXCEPT !.item = mergedItem,
                        !.state = determineSaleState(existing.state)]
mergeSale(existing, sale) ==
    LET normalizedSale == normalizeSale(sale)
        mergedItem == IF preferExisting(existing)
                      THEN mergeCapSummary(normalizedSale, existing.item)
                      ELSE mergeCapSummary(existing.item, normalizedSale)
    IN [existing EXCEPT !.item = mergedItem,
                        !.isEdited = TRUE,
                        !.state = determineSaleState(existing.state)]

\* processSaleAnnouncements for one sale: the store and what was sent
\* a sale of a stored cap: the merge, then the refresh
saleMerged(caps, address, merged, d) ==
    [caps |-> [caps EXCEPT ![address] = refreshCapMessage(address, merged, d)],
     sent |-> refreshSent(address, merged, d),
     failed |-> refreshFailed(address, merged, d)]
\* a new entry of the map (announcedCaps.set), then its broadcast
announced(caps, address, stored, d) ==
    [caps |-> (address :> broadcastMessage(address, stored, d)) @@ caps,
     sent |-> broadcastSent(address, stored, d),
     failed |-> broadcastFailed(address, stored, d)]
processSaleAsNewCap(caps, sale, d) ==
    IF sale.offchainGetgemsAddress \in DOMAIN caps
    THEN saleMerged(caps, sale.offchainGetgemsAddress,
                    mergeSale(caps[sale.offchainGetgemsAddress], sale), d)
    ELSE announced(caps, sale.offchainGetgemsAddress,
                       NewStoredCap(normalizeSale(sale), "PUBLISHED"), d)
processSale(caps, sale, d) ==
    IF sale.offchainGetgemsAddress \in DOMAIN caps
    THEN saleMerged(caps, sale.offchainGetgemsAddress,
                    mergeSale(caps[sale.offchainGetgemsAddress], sale), d)
    ELSE announced(caps, sale.offchainGetgemsAddress,
                       NewStoredCap(normalizeSale(sale), "SOLD_PUBLISHED"), d)

\* what two parts of a cycle did, taken together
both(first, rest) ==
    [caps |-> rest.caps, sent |-> first.sent \cup rest.sent,
     failed |-> first.failed \cup rest.failed]

RECURSIVE processSaleAnnouncements(_, _, _)
RECURSIVE salesAfter(_, _, _)
processSaleAnnouncements(caps, sales, d) ==
    IF sales = <<>> THEN [caps |-> caps, sent |-> {}, failed |-> {}]
    ELSE salesAfter(processSale(caps, Head(sales), d), Tail(sales), d)
salesAfter(first, sales, d) == both(first, processSaleAnnouncements(first.caps, sales, d))

(***************************************************************************)
(* New caps of a poll cycle.                                               *)
(***************************************************************************)
\* newCaps.filter((cap) => !announcedCaps.has(cap.offchainGetgemsAddress))
freshCapsUnfiltered(caps, newCaps) == newCaps
freshCaps(caps, newCaps) ==
    SelectSeq(newCaps, LAMBDA cap : cap.offchainGetgemsAddress \notin DOMAIN caps)

RECURSIVE announceCaps(_, _, _)
RECURSIVE capsAfter(_, _, _)
announceCaps(caps, fresh, d) ==
    IF fresh = <<>> THEN [caps |-> caps, sent |-> {}, failed |-> {}]
    ELSE capsAfter(announced(caps, Head(fresh).offchainGetgemsAddress,
                             NewStoredCap(Head(fresh), "PUBLISHED"), d),
                   Tail(fresh), d)
capsAfter(first, fresh, d) == both(first, announceCaps(first.caps, fresh, d))

addressesOf(caps) == [i \in DOMAIN caps |-> caps[i].offchainGetgemsAddress]

\* the end of a cycle that had data: what was sent, and what was appended to
\* the raw log by appendRawCaps(freshCaps), then appendRawCaps(loggedSales)
pollResult(done, fresh, sales) ==
    [caps |-> done.caps, sent |-> done.sent, failed |-> done.failed,
     logged |-> addressesOf(fresh) \o addressesOf(sales),
     persistNeeded |-> Len(fresh) > 0 \/ sales # <<>>,
     line |-> ""]
\* the new caps, then the sales
salesAfterCaps(afterCaps, sales, d) ==
    both(afterCaps, processSaleAnnouncements(afterCaps.caps, sales, d))

\* pollOnce on a response that carries data
pollData(caps, data, d) ==
    LET hasNewCaps == data.hasNew /\ Len(data.newCaps) > 0
        hasNewSales == data.hasNewSales /\ Len(data.newSales) > 0
    IN pollResult(
         salesAfterCaps(
           announceCaps(caps, IF hasNewCaps THEN freshCaps(caps, data.newCaps) ELSE <<>>, d),
           IF hasNewSales THEN data.newSales ELSE <<>>, d),
         IF hasNewCaps THEN freshCaps(caps, data.newCaps) ELSE <<>>,
         IF hasNewSales THEN data.newSales ELSE <<>>)

\* what the poll endpoint answers: the request fails (non-2xx status, abort
\* after the timeout, unparsable body) or a payload arrives
Response(kind, success, hasData, data) ==
    [kind |-> kind, success |-> success, hasData |-> hasData, data |-> data]
NoData == [hasNew |-> FALSE, newCaps |-> <<>>, hasNewSales |-> FALSE, newSales |-> <<>>]
OkResponse(data) == Response("payload", TRUE, TRUE, data)

\* !(!payload.success || !payload.data)
payloadUsableWithData(response) == response.hasData
payloadUsable(response) == response.success /\ response.hasData

\* pollOnce: the store after the cycle, what was sent and logged, and the
\* line written to the console when the cycle is skipped
pollSkipped(caps, line) ==
    [caps |-> caps, sent |-> {}, failed |-> {}, logged |-> <<>>, persistNeeded |-> FALSE,
     line |-> line]
pollOnce(caps, response, d) ==
    IF response.kind = "timeout" THEN pollSkipped(caps, "Poll request timed out")
    ELSE IF response.kind # "payload" THEN pollSkipped(caps, "Polling failed")
    ELSE IF ~payloadUsable(response)
    THEN pollSkipped(caps, "Poll succeeded but response flagged as unsuccessful")
    ELSE pollData(caps, response.data, d)

(***************************************************************************)
(* The ledger client.  Each write either fails (non-2xx, unparsable body)  *)
(* or returns the record the backend answered with.                        *)
(***************************************************************************)
Failed == [ok |-> FALSE, record |-> NullRecord]
Answered(record) == [ok |-> TRUE, record |-> record]
\* answers to the BUY POST: a record with its identifier under data, or one
\* without; to the SELL POST: a record with a top-level id, or one without;
\* to the cap POST and to the markSold PATCH: a record
LedgerAnswers == [buy : {Failed, Answered(RespData(1)), Answered(RespNoId)},
                  cap : {Failed, Answered(RespTop(3))},
                  sell : {Failed, Answered(RespTop(2)), Answered(RespNoId)},
                  sold : {Failed, Answered(RespData(4))}]

\* one request to the ledger, as the backend saw it
Call(name, ok, identifier, amount, time) ==
    [call |-> name, ok |-> ok, identifier |-> identifier, amount |-> amount, time |-> time]

\* createTransactionRecord(cap): POST /transactions, txType BUY
createTransactionRecord(cap, ledger) == Call("buy", ledger.buy.ok, 0, 0, 0)
\* createCapRecord(cap, "APPROVED", buyTransactionId): POST /caps
createCapRecordWithoutTransaction(cap, buyTransactionId, ledger) ==
    Call("cap", ledger.cap.ok, 0, tonToNano(cap.salePriceTon), 0)
createCapRecord(cap, buyTransactionId, ledger) ==
    Call("cap", ledger.cap.ok, buyTransactionId, tonToNano(cap.salePriceTon), 0)
\* createSellTransactionRecord(cap, saleTime): POST /transactions, txType SELL
createSellTransactionRecord(cap, saleTime, ledger) ==
    Call("sell", ledger.sell.ok, 0, tonToNano(cap.salePriceTon), saleTime)
\* markCapAsSold(giftNumber, soldForNano, sellDate, sellTransactionId)
markCapAsSold(giftNumber, soldForNano, sellDate, sellTransactionId, ledger) ==
    Call("sold", ledger.sold.ok, sellTransactionId, soldForNano, sellDate)

(***************************************************************************)
(* approveCap.  The result: the stored cap as the call leaves it, the      *)
(* ledger requests in order, whether an error was thrown, and whether the  *)
(* message refresh was reached.                                            *)
(***************************************************************************)
Outcome(stored, calls, threw, refresh) ==
    [stored |-> stored, calls |-> calls, threw |-> threw, refresh |-> refresh]

\* if (!stored.buyTransactionRecord)
needsBuyTransactionAlways(stored) == TRUE
needsBuyTransaction(stored) == stored.buyTransactionRecord.kind = "null"
\* if (!stored.capStrRecord)
needsCapRecordNever(stored) == FALSE
needsCapRecord(stored) == stored.capStrRecord.kind = "null"
\* if (!stored.sellTransactionRecord)
needsSellTransactionAlways(stored) == TRUE
needsSellTransaction(stored) == stored.sellTransactionRecord.kind = "null"

\* ensureApprovalPrerequisites followed by the transition to APPROVED
approvePublication(stored, ledger) ==
    LET cap == stored.item
        needBuy == needsBuyTransaction(stored)
        buyCall == createTransactionRecord(cap, ledger)
        afterBuy == IF needBuy
                    THEN [stored EXCEPT !.buyTransactionRecord = ledger.buy.record]
                    ELSE stored
        buyCalls == IF needBuy THEN <<buyCall>> ELSE <<>>
        buyTransactionId == extractIdentifier(afterBuy.buyTransactionRecord)
        needCap == needsCapRecord(afterBuy)
        capCall == createCapRecord(cap, buyTransactionId, ledger)
        afterCap == IF needCap
                    THEN [afterBuy EXCEPT !.capStrRecord = ledger.cap.record]
                    ELSE afterBuy
        capCalls == IF needCap THEN <<capCall>> ELSE <<>>
    IN IF needBuy /\ ~buyCall.ok THEN Outcome(stored, buyCalls, TRUE, FALSE)
       ELSE IF buyTransactionId = 0 THEN Outcome(afterBuy, buyCalls, TRUE, FALSE)
       ELSE IF needCap /\ ~capCall.ok THEN Outcome(afterBuy, buyCalls \o capCalls, TRUE, FALSE)
       ELSE Outcome([afterCap EXCEPT !.state = "APPROVED"], buyCalls \o capCalls, FALSE, TRUE)

\* salePriceNano === "0"
salePriceUnavailableNever(salePriceNano) == FALSE
salePriceUnavailable(salePriceNano) == salePriceNano = 0

\* cap.saleTime ?? cap.detectedAt ?? cap.buyTime ?? Date.now(); detectedAt is
\* a number on every item
saleTimeSource(cap) ==
    IF cap.saleTime.kind \in {"undefined", "null"} THEN TimeNum(DetectedAtMs) ELSE cap.saleTime

\* the branch of SOLD_PUBLISHED, SOLD_REJECTED and APPROVED_SOLD
approveSale(address, stored, ledger) ==
    LET cap == stored.item
        salePriceNano == tonToNano(cap.salePriceTon)
        saleTime == saleTimeSource(cap)
        needSell == needsSellTransaction(stored)
        sellCall == createSellTransactionRecord(cap, saleTime.ms, ledger)
        afterSell == IF needSell
                     THEN [stored EXCEPT !.sellTransactionRecord = ledger.sell.record]
                     ELSE stored
        sellCalls == IF needSell THEN <<sellCall>> ELSE <<>>
        sellTransactionId == extractIdentifier(afterSell.sellTransactionRecord)
        giftNumber == GiftIdOf(address)
        soldCall == markCapAsSold(giftNumber, salePriceNano, saleTime.ms, sellTransactionId, ledger)
    IN IF salePriceUnavailable(salePriceNano) THEN Outcome(stored, <<>>, TRUE, FALSE)
       ELSE IF saleTime.kind # "num" THEN Outcome(stored, <<>>, TRUE, FALSE)
       ELSE IF needSell /\ ~sellCall.ok THEN Outcome(stored, sellCalls, TRUE, FALSE)
       ELSE IF sellTransactionId = 0 THEN Outcome(afterSell, sellCalls, TRUE, FALSE)
       ELSE IF ~soldCall.ok THEN Outcome(afterSell, sellCalls \o <<soldCall>>, TRUE, FALSE)
       ELSE Outcome([afterSell EXCEPT !.capStrRecord = ledger.sold.record,
                                      !.state = "SOLD_APPROVED"],
                    sellCalls \o <<soldCall>>, FALSE, TRUE)

\* stored.item.saleTime !== null && stored.item.saleTime !== undefined
hasSaleTimeAlways(item) == TRUE
hasSaleTime(item) == item.saleTime.kind \notin {"null", "undefined"}

approveCapWithoutSaleShortcut(address, stored, ledger) ==
    IF stored.state = "SOLD_APPROVED" THEN Outcome(stored, <<>>, FALSE, TRUE)
    ELSE IF stored.state \in {"SOLD_PUBLISHED", "SOLD_REJECTED", "APPROVED_SOLD"}
    THEN approveSale(address, stored, ledger)
    ELSE approvePublication(stored, ledger)
approveCapRepeatsSale(address, stored, ledger) ==
    IF isSoldState(stored.state) THEN approveSale(address, stored, ledger)
    ELSE IF stored.state \in {"APPROVED", "REJECTED"} /\ hasSaleTime(stored.item)
    THEN Outcome([stored EXCEPT !.state = "APPROVED_SOLD"], <<>>, FALSE, TRUE)
    ELSE approvePublication(stored, ledger)
approveCap(address, stored, ledger) ==
    IF stored.state = "SOLD_APPROVED" THEN Outcome(stored, <<>>, FALSE, TRUE)
    ELSE IF stored.state \in {"SOLD_PUBLISHED", "SOLD_REJECTED", "APPROVED_SOLD"}
    THEN approveSale(address, stored, ledger)
    ELSE IF stored.state \in {"APPROVED", "REJECTED"} /\ hasSaleTime(stored.item)
    THEN Outcome([stored EXCEPT !.state = "APPROVED_SOLD"], <<>>, FALSE, TRUE)
    ELSE approvePublication(stored, ledger)

\* rejectCap(address) on a stored cap
rejectCapPublishedOnly(stored) ==
    IF stored.state = "PUBLISHED" THEN [stored EXCEPT !.state = "REJECTED"] ELSE stored
rejectCapForgetsRecords(stored) ==
    [stored EXCEPT !.state = "REJECTED", !.buyTransactionRecord = NullRecord,
                   !.capStrRecord = NullRecord, !.sellTransactionRecord = NullRecord]
rejectCap(stored) ==
    IF stored.state \in {"SOLD_PUBLISHED", "SOLD_APPROVED", "APPROVED_SOLD"}
    THEN [stored EXCEPT !.state = "SOLD_REJECTED"]
    ELSE [stored EXCEPT !.state = "REJECTED"]

(***************************************************************************)
(* The edit dialog.                                                        *)
(***************************************************************************)
Users == {1, 2}
NoAddress == "<none>"
NoEdit == [capAddress |-> NoAddress, field |-> ""]

editableFields ==
    <<"Getgems Address", "Name", "Record Type", "Buy Price", "Sale Price",
      "Buy Time (UTC)", "Sale Time (UTC)", "GetGems URL", "Link to Gift",
      "Tx Hash", "Seller Wallet", "Buyer Wallet">>

fieldToProperty(field) ==
    CASE field = "Getgems Address" -> "offchainGetgemsAddress"
      [] field = "Name" -> "name"
      [] field = "Record Type" -> "saleType"
      [] field = "Buy Price" -> "buyPriceTon"
      [] field = "Sale Price" -> "salePriceTon"
      [] field = "Buy Time (UTC)" -> "buyTime"
      [] field = "Sale Time (UTC)" -> "saleTime"
      [] field = "GetGems URL" -> "getGemsUrl"
      [] field = "Link to Gift" -> "onchainAddress"
      [] field = "Tx Hash" -> "txHash"
      [] field = "Seller Wallet" -> "fromWalletAddress"
      [] OTHER -> "toWalletAddress"

\* Number(newValue): NaN for a text that is no number
NaN == [kind |-> "nan", ms |-> 0]
Number(text) ==
    CASE text = "1700" -> TimeNum(SaleAtMs)
      [] text = "1600" -> TimeNum(DetectedAtMs)
      [] text = "Infinity" -> TimeInfinity
      [] OTHER -> NaN

\* the decimal string as BigNumber reads it
priceOfText(text) ==
    CASE text = "1" -> PriceNum(OneTon)
      [] text = "0.0000000015" -> PriceNum(3)
      [] text = "0.0000000005" -> PriceNum(1)
      [] text = "0" -> PriceNum(0)
      [] OTHER -> PriceText

\* the text handler's assignment to stored.item[propKey]; the fields the
\* model does not keep change nothing it keeps
editItem(item, propKey, newValue) ==
    CASE propKey = "saleTime" ->
            IF Number(newValue).kind # "nan"
            THEN [item EXCEPT !.saleTime = Number(newValue)] ELSE item
      [] propKey = "offchainGetgemsAddress" ->
            [item EXCEPT !.offchainGetgemsAddress = newValue]
      [] propKey = "name" -> [item EXCEPT !.name = newValue]
      [] propKey = "salePriceTon" -> [item EXCEPT !.salePriceTon = priceOfText(newValue)]
      [] OTHER -> item

editCapKeepsFlags(stored, field, newValue) ==
    [stored EXCEPT !.item = editItem(@, fieldToProperty(field), newValue)]
editCap(stored, field, newValue) ==
    [stored EXCEPT !.item = editItem(@, fieldToProperty(field), newValue),
                   !.isEdited = TRUE,
                   !.hasManualChanges = TRUE]

(***************************************************************************)
(* Handlers.  Each takes its inputs (the address in the callback data, the *)
(* ledger's answers, the gateway's behaviour) as parameters.               *)
(***************************************************************************)
\* the last handler run: what it was asked, what it answered, the ledger
\* requests it made, the messages the gateway accepted, the sales it merged,
\* the deliveries it logged as failed, the addresses of the new caps it was
\* given, the addresses it appended to the raw log, the promise it returned;
\* and, kept from handler to handler, for each user the items whose Edit
\* button the user has pressed since the start
Op(op, address, before, threw, answer, calls, sent) ==
    [op |-> op, address |-> address, before |-> before, threw |-> threw,
     answer |-> answer, calls |-> calls, sent |-> sent, failed |-> {}, sales |-> <<>>,
     newCaps |-> <<>>, logged |-> <<>>, promise |-> 0, pressed |-> lastOp.pressed]

\* the handler runs to completion: no poll cycle and no approval is suspended
\* while it runs, and none is left suspended by it
Sequential == UNCHANGED <<currentPollPromise, pollOnceRunning, approvals>>

stateOf(address) == IF has(address) THEN announcedCaps[address].state ELSE "NONE"

\* the ledger's count of the accepted requests of one kind
accepted(calls, name) ==
    Cardinality({i \in DOMAIN calls : calls[i].call = name /\ calls[i].ok})

LedgerKinds == {"buy", "cap", "sell", "sold"}

recordCalls(posts, address, calls) ==
    [posts EXCEPT ![address] =
        [kind \in LedgerKinds |->
            IF @[kind] + accepted(calls, kind) < MaxPosts
            THEN @[kind] + accepted(calls, kind) ELSE MaxPosts]]

\* approveCap wrote the snapshot: after every record it stored and after
\* every state it set (the SOLD_APPROVED re-press sets none)
approvePersists(stored, out) ==
    \/ \E i \in DOMAIN out.calls : out.calls[i].ok
    \/ out.refresh /\ stored.state # "SOLD_APPROVED"

\* the approve_ handler after approveCap returned or threw
ApproveEnds(address, out, d) ==
    /\ idsBounded(IF out.refresh THEN refreshCapMessage(address, out.stored, d) ELSE out.stored)
    /\ announcedCaps' = [announcedCaps EXCEPT ![address] =
                            IF out.refresh THEN refreshCapMessage(address, out.stored, d)
                            ELSE out.stored]
    /\ announcedFile' =
          IF approvePersists(announcedCaps[address], out)
          THEN persistAnnouncedAddresses([announcedCaps EXCEPT ![address] = out.stored])
          ELSE announcedFile
    /\ ledgerPosts' = recordCalls(ledgerPosts, address, out.calls)
    /\ lastOp' = [Op("approve", address, stateOf(address), out.threw,
                      IF out.threw THEN "Approval failed" ELSE "Approved", out.calls,
                      IF out.refresh THEN refreshSent(address, out.stored, d) ELSE {})
                     EXCEPT !.failed = IF out.refresh
                                       THEN refreshFailed(address, out.stored, d) ELSE {}]
    /\ UNCHANGED <<subscribedChats, fieldSelectState, editState, registration>>

\* callback_query "approve_<address>"
Approve(address, ledger, d) ==
    IF ~has(address)
    THEN /\ lastOp' = Op("approve", address, "NONE", TRUE, "Approval failed", <<>>, {})
         /\ UNCHANGED <<announcedCaps, subscribedChats, ledgerPosts, registration,
                        fieldSelectState, editState, announcedFile>>
    ELSE ApproveEnds(address, approveCap(address, announcedCaps[address], ledger), d)

\* callback_query "reject_<address>"
Reject(address, d) ==
    IF has(address) /\ isSoldState(announcedCaps[address].state)
    THEN /\ lastOp' = Op("reject", address, stateOf(address), FALSE,
                         "Sale rejection review coming soon", <<>>, {})
         /\ UNCHANGED <<announcedCaps, subscribedChats, ledgerPosts, registration,
                        fieldSelectState, editState, announcedFile>>
    ELSE IF ~has(address)
    THEN /\ lastOp' = Op("reject", address, "NONE", FALSE, "Rejected", <<>>, {})
         /\ UNCHANGED <<announcedCaps, subscribedChats, ledgerPosts, registration,
                        fieldSelectState, editState, announcedFile>>
    ELSE LET rejected == rejectCap(announcedCaps[address])
             after == refreshCapMessage(address, rejected, d)
         IN /\ idsBounded(after)
            /\ announcedCaps' = [announcedCaps EXCEPT ![address] = after]
            /\ announcedFile' =
                  persistAnnouncedAddresses([announcedCaps EXCEPT ![address] = rejected])
            /\ lastOp' = [Op("reject", address, stateOf(address), FALSE, "Rejected", <<>>,
                             refreshSent(address, rejected, d))
                             EXCEPT !.failed = refreshFailed(address, rejected, d)]
            /\ UNCHANGED <<subscribedChats, ledgerPosts, registration, fieldSelectState, editState>>

\* callback_query "edit_<address>", pressed by userId in chatId on the message
\* originMessageId
EditPress(userId, address, chatId, originMessageId) ==
    IF ~has(address)
    THEN /\ lastOp' = Op("edit", address, "NONE", FALSE, "Cap not found", <<>>, {})
         /\ UNCHANGED <<announcedCaps, subscribedChats, ledgerPosts, registration,
                        fieldSelectState, editState, announcedFile>>
    ELSE /\ originMessageId \in 1..announcedCaps[address].messageIds[chatId]
         /\ announcedCaps' = [announcedCaps EXCEPT
                                 ![address].messageIds[chatId] = originMessageId]
         /\ fieldSelectState' = [fieldSelectState EXCEPT ![chatId] = address]
         /\ lastOp' = [Op("edit", address, stateOf(address), FALSE, "", <<>>, {})
                          EXCEPT !.pressed[userId] = @ \cup {address}]
         /\ UNCHANGED <<subscribedChats, ledgerPosts, registration, editState, announcedFile>>

\* callback_query "select_field_<index>"
SelectField(chatId, userId, index) ==
    IF fieldSelectState[chatId] = NoAddress
    THEN /\ lastOp' = Op("select", NoAddress, "NONE", FALSE, "Session expired", <<>>, {})
         /\ UNCHANGED <<announcedCaps, subscribedChats, ledgerPosts, registration,
                        fieldSelectState, editState, announcedFile>>
    ELSE IF index + 1 \notin DOMAIN editableFields   \* !field; the index counts from 0
    THEN /\ lastOp' = Op("select", fieldSelectState[chatId], "NONE", FALSE,
                         "Invalid field", <<>>, {})
         /\ UNCHANGED <<announcedCaps, subscribedChats, ledgerPosts, registration,
                        fieldSelectState, editState, announcedFile>>
    ELSE /\ editState' = [editState EXCEPT ![userId] =
                            [capAddress |-> fieldSelectState[chatId],
                             field |-> editableFields[index + 1]]]
         /\ fieldSelectState' = [fieldSelectState EXCEPT ![chatId] = NoAddress]
         /\ lastOp' = Op("select", fieldSelectState[chatId], "NONE", FALSE, "", <<>>, {})
         /\ UNCHANGED <<announcedCaps, subscribedChats, ledgerPosts, registration, announcedFile>>

\* a text message of a user who has an edit session
EditText(userId, newValue, d) ==
    /\ editState[userId] # NoEdit
    /\ LET address == editState[userId].capAddress
           field == editState[userId].field
       IN /\ editState' = [editState EXCEPT ![userId] = NoEdit]
          /\ IF has(address)
             THEN LET edited == editCap(announcedCaps[address], field, newValue)
                      after == refreshCapMessage(address, edited, d)
                  IN /\ idsBounded(after)
                     /\ announcedCaps' = [announcedCaps EXCEPT ![address] = after]
                     /\ announcedFile' = persistAnnouncedAddresses(
                                             [announcedCaps EXCEPT ![address] = edited])
                     /\ lastOp' = [Op("text", address, stateOf(address), FALSE, field, <<>>,
                                      refreshSent(address, edited, d))
                                      EXCEPT !.failed = refreshFailed(address, edited, d)]
             ELSE /\ lastOp' = Op("text", address, "NONE", FALSE, field, <<>>, {})
                  /\ UNCHANGED <<announcedCaps, announcedFile>>
          /\ UNCHANGED <<subscribedChats, ledgerPosts, registration, fieldSelectState>>

(***************************************************************************)
(* Subscriptions.                                                          *)
(***************************************************************************)
allowedChatIds == Chats
\* a chat outside the allow-list
OtherChat == 3

SubscribeAnyChat(chatId) ==
    /\ subscribedChats' = subscribedChats \cup {chatId}
    /\ lastOp' = Op("subscribe", NoAddress, "NONE", FALSE, "Subscription enabled.", <<>>, {})
    /\ UNCHANGED <<announcedCaps, ledgerPosts, registration, fieldSelectState, editState, announcedFile>>
Subscribe(chatId) ==
    /\ subscribedChats' =
          IF chatId \in allowedChatIds /\ chatId \notin subscribedChats
          THEN subscribedChats \cup {chatId} ELSE subscribedChats
    /\ lastOp' = Op("subscribe", NoAddress, "NONE", FALSE,
                    IF chatId \notin allowedChatIds THEN "Chat not authorized to subscribe"
                    ELSE IF chatId \in subscribedChats THEN "Already subscribed to cap alerts."
                    ELSE "Subscription enabled.", <<>>, {})
    /\ UNCHANGED <<announcedCaps, ledgerPosts, registration, fieldSelectState, editState, announcedFile>>

Unsubscribe(chatId) ==
    /\ subscribedChats' =
          IF chatId \in allowedChatIds /\ chatId \in subscribedChats
          THEN subscribedChats \ {chatId} ELSE subscribedChats
    /\ lastOp' = Op("unsubscribe", NoAddress, "NONE", FALSE,
                    IF chatId \notin allowedChatIds THEN "Chat not authorized to unsubscribe"
                    ELSE IF chatId \notin subscribedChats
                    THEN "This chat is not currently subscribed."
                    ELSE "Subscription removed.", <<>>, {})
    /\ UNCHANGED <<announcedCaps, ledgerPosts, registration, fieldSelectState, editState, announcedFile>>

(***************************************************************************)
(* The registration flows: /registersellbuyburn (one payload with the      *)
(* sell, buy and burn hashes of a cap) and /registersells (a batch of sell *)
(* hashes).  A payload is the text of the message as JSON.parse and the    *)
(* field tests read it: empty text, text that is no JSON, the JSON null,   *)
(* an object that lacks a required field, an object whose giftNumber is no *)
(* number, or an object with a gift number and its hashes.  The oracle     *)
(* (fetchTonTransactionDetails) answers each hash with an amount ("ok"),   *)
(* with no positive amount ("zero"), or fails ("fail"); the ledger answers *)
(* each kind of request with a record ("ok"), with a record that carries   *)
(* no identifier ("noid"), or fails ("fail").  Only the CapStrategy target *)
(* is followed.                                                            *)
(***************************************************************************)
\* no entry in registerFlowState / flowState
NoFlow == [stage |-> "none", chatId |-> 0]

\* createBackendTransaction(payload), accepted: the ledger's transactions
\* after the POST
createBackendTransaction(transactions, txHash, txType) ==
    Append(transactions, [txHash |-> txHash, txType |-> txType])

\* the command /registersellbuyburn from userId in chatId
RegisterCommand(chatId, userId) ==
    /\ lastOp' = Op("registersellbuyburn", NoAddress, registerFlowState[userId].stage, FALSE,
                    IF chatId \notin allowedChatIds
                    THEN "Not authorized to register transactions."
                    ELSE IF registerFlowState[userId] # NoFlow
                    THEN "A transaction registration is already in progress."
                    ELSE "Select which strategy", <<>>, {})
    /\ registerFlowState' =
          IF chatId \in allowedChatIds /\ registerFlowState[userId] = NoFlow
          THEN [registerFlowState EXCEPT ![userId] =
                   [stage |-> "awaitingTarget", chatId |-> chatId]]
          ELSE registerFlowState
    /\ UNCHANGED <<announcedCaps, subscribedChats, ledgerPosts, fieldSelectState, editState,
                   announcedFile, flowState, ledgerTransactions>>

\* callback_query "register_target_<targetId>" from userId
RegisterTarget(userId, targetId) ==
    /\ lastOp' = Op("register_target", NoAddress, registerFlowState[userId].stage, FALSE,
                    IF targetId # "CAPSTRATEGY" THEN "Unknown selection"
                    ELSE IF registerFlowState[userId].stage # "awaitingTarget"
                    THEN "Session expired. Use /registersellbuyburn again."
                    ELSE "CapStrategy selected", <<>>, {})
    /\ registerFlowState' =
          IF targetId = "CAPSTRATEGY" /\ registerFlowState[userId].stage = "awaitingTarget"
          THEN [registerFlowState EXCEPT ![userId].stage = "awaitingCapJson"]
          ELSE registerFlowState
    /\ UNCHANGED <<announcedCaps, subscribedChats, ledgerPosts, fieldSelectState, editState,
                   announcedFile, flowState, ledgerTransactions>>

\* handleCapRegisterMessage once the payload has passed the field tests and
\* targetCap is found with a cap record: the oracle lookups, the four ledger
\* requests, and what is left behind.  transactions: the ledger's
\* transactions afterwards; record: targetCap.capStrRecord afterwards
handleCapRegisterMessage(stored, payload, oracle, ledger, transactions) ==
    LET hashes == payload.hashes
        sell == Call("SELL", ledger.SELL # "fail", 0, 0, 0)
        afterSell == createBackendTransaction(transactions, hashes[1], "SELL")
        buy == Call("BUY", ledger.BUY # "fail", 0, 0, 0)
        afterBuy == createBackendTransaction(afterSell, hashes[2], "BUY")
        burn == Call("BURN", ledger.BURN # "fail", 0, 0, 0)
        afterBurn == createBackendTransaction(afterBuy, hashes[3], "BURN")
        \* extractIdentifier(capstrBurnRecord, ["TxID", "txId", "transactionId", "id"])
        sellTransactionId == IF ledger.BURN = "noid" THEN 0 ELSE Len(afterBurn)
        \* extractIdentifier(targetCap.capStrRecord, ["CapStrCapID", "capStrCapId", "id"])
        capStrCapId ==
            extractIdentifier([stored.capStrRecord EXCEPT !.TxID = 0, !.dTxID = 0])
        patch == Call("PATCH", ledger.PATCH # "fail", sellTransactionId, capStrCapId, 0)
        result(calls, after, done, record) ==
            [calls |-> calls, transactions |-> after, done |-> done, record |-> record,
             reply |-> IF done THEN "Sell/buy/burn registration complete"
                       ELSE "Failed to register sell/buy/burn flow"]
    IN IF \E i \in DOMAIN hashes : oracle[hashes[i]] = "fail"
       THEN result(<<>>, transactions, FALSE, stored.capStrRecord)
       ELSE IF ~sell.ok THEN result(<<sell>>, transactions, FALSE, stored.capStrRecord)
       ELSE IF ~buy.ok THEN result(<<sell, buy>>, afterSell, FALSE, stored.capStrRecord)
       ELSE IF ~burn.ok
       THEN result(<<sell, buy, burn>>, afterBuy, FALSE, stored.capStrRecord)
       ELSE IF sellTransactionId = 0 \/ capStrCapId = 0
       THEN result(<<sell, buy, burn>>, afterBurn, FALSE, stored.capStrRecord)
       ELSE IF ~patch.ok
       THEN result(<<sell, buy, burn, patch>>, afterBurn, FALSE, stored.capStrRecord)
       ELSE result(<<sell, buy, burn, patch>>, afterBurn, TRUE,
                   \* the record the PATCH returned: the cap with its sale
                   ObjRecord(TRUE, 0, capStrCapId, 0, capStrCapId))

\* a text message of a user who has an entry in registerFlowState
RegisterText(userId, payload, oracle, ledger) ==
    LET state == registerFlowState[userId]
        \* findCapByGiftNumber(giftNumber); gift numbers are distinct
        targets == {a \in DOMAIN announcedCaps : GiftIdOf(a) = payload.giftNumber}
        address == IF targets = {} THEN NoAddress ELSE CHOOSE a \in targets : TRUE
        \* the reply of the tests before the first request, "" when all pass
        refusal == IF payload.kind = "invalid" THEN "Invalid JSON."
                   ELSE IF payload.kind = "missing" THEN "Missing required field(s)"
                   ELSE IF payload.kind = "nan" THEN "giftNumber must be a valid number."
                   ELSE IF address = NoAddress THEN "Could not find an announced cap"
                   ELSE IF announcedCaps[address].capStrRecord.kind = "null"
                   THEN "CapStr record not found for this cap."
                   ELSE ""
        out == handleCapRegisterMessage(announcedCaps[address], payload, oracle, ledger,
                                        ledgerTransactions)
        stored == [announcedCaps EXCEPT ![address].capStrRecord = out.record]
        handled(line, threw, who, calls) ==
            lastOp' = Op("register_text", who, state.stage, threw, line, calls, {})
    IN /\ state # NoFlow
       /\ IF state.stage = "awaitingTarget"
          THEN /\ handled("Please choose CapStrategy or PepeStrategy", FALSE, NoAddress, <<>>)
               /\ UNCHANGED <<announcedCaps, announcedFile, registerFlowState,
                              ledgerTransactions>>
          ELSE IF payload.kind = "empty"
          THEN /\ handled("Please send the JSON payload as plain text.", FALSE,
                          NoAddress, <<>>)
               /\ UNCHANGED <<announcedCaps, announcedFile, registerFlowState,
                              ledgerTransactions>>
          ELSE IF payload.kind = "null"
          THEN \* parsed.capSellTxHash of null: the TypeError leaves the handler
               /\ handled("", TRUE, NoAddress, <<>>)
               /\ UNCHANGED <<announcedCaps, announcedFile, registerFlowState,
                              ledgerTransactions>>
          ELSE IF refusal # ""
          THEN /\ handled(refusal, FALSE, address, <<>>)
               /\ registerFlowState' = [registerFlowState EXCEPT ![userId] = NoFlow]
               /\ UNCHANGED <<announcedCaps, announcedFile, ledgerTransactions>>
          ELSE /\ Len(out.transactions) <= MaxTransactions
               /\ handled(out.reply, FALSE, address, out.calls)
               /\ registerFlowState' = [registerFlowState EXCEPT ![userId] = NoFlow]
               /\ ledgerTransactions' = out.transactions
               /\ announcedCaps' = stored
               /\ announcedFile' = IF out.done THEN persistAnnouncedAddresses(stored)
                                   ELSE announcedFile
       /\ UNCHANGED <<subscribedChats, ledgerPosts, fieldSelectState, editState, flowState>>

\* the command /registersells from userId in chatId
MultiSellCommand(chatId, userId) ==
    /\ lastOp' = Op("registersells", NoAddress, flowState[userId].stage, FALSE,
                    IF chatId \notin allowedChatIds
                    THEN "Not authorized to register sell transactions."
                    ELSE IF flowState[userId] # NoFlow
                    THEN "A multi-sell registration is already in progress."
                    ELSE "Select which strategy", <<>>, {})
    /\ flowState' =
          IF chatId \in allowedChatIds /\ flowState[userId] = NoFlow
          THEN [flowState EXCEPT ![userId] = [stage |-> "awaitingTarget", chatId |-> chatId]]
          ELSE flowState
    /\ UNCHANGED <<announcedCaps, subscribedChats, ledgerPosts, fieldSelectState, editState,
                   announcedFile, registerFlowState, ledgerTransactions>>

\* callback_query "multi_sell_target_<targetId>" from userId
MultiSellTarget(userId, targetId) ==
    /\ lastOp' = Op("multi_sell_target", NoAddress, flowState[userId].stage, FALSE,
                    IF targetId # "CAPSTRATEGY" THEN "Unknown selection"
                    ELSE IF flowState[userId].stage # "awaitingTarget"
                    THEN "Session expired. Use /registersells again."
                    ELSE "Selected CapStrategy", <<>>, {})
    /\ flowState' =
          IF targetId = "CAPSTRATEGY" /\ flowState[userId].stage = "awaitingTarget"
          THEN [flowState EXCEPT ![userId].stage = "awaitingPayload"]
          ELSE flowState
    /\ UNCHANGED <<announcedCaps, subscribedChats, ledgerPosts, fieldSelectState, editState,
                   announcedFile, registerFlowState, ledgerTransactions>>

\* registerCapSells(hashes, giftNumber): per hash the oracle lookup, the
\* amount test and the SELL POST, until one of them throws
RECURSIVE registerCapSells(_, _, _, _, _)
registerCapSells(hashes, found, oracle, ledger, transactions) ==
    IF ~found THEN [calls |-> <<>>, transactions |-> transactions, threw |-> TRUE]
    ELSE IF hashes = <<>> THEN [calls |-> <<>>, transactions |-> transactions, threw |-> FALSE]
    ELSE IF oracle[Head(hashes)] # "ok"
    THEN [calls |-> <<>>, transactions |-> transactions, threw |-> TRUE]
    ELSE IF ledger.SELL = "fail"
    THEN [calls |-> <<Call("SELL", FALSE, 0, 0, 0)>>, transactions |-> transactions,
          threw |-> TRUE]
    ELSE LET rest == registerCapSells(Tail(hashes), found, oracle, ledger,
                         createBackendTransaction(transactions, Head(hashes), "SELL"))
         IN [rest EXCEPT !.calls = <<Call("SELL", TRUE, 0, 0, 0)>> \o @]

\* a text message of a user who has an entry in flowState and none in
\* registerFlowState (whose handler is registered first)
MultiSellText(userId, payload, oracle, ledger) ==
    LET state == flowState[userId]
        refusal == IF payload.kind = "invalid" THEN "Invalid JSON."
                   ELSE IF payload.kind = "nan"
                   THEN "giftNumber is required and must be numeric."
                   ELSE IF payload.hashes = <<>>
                   THEN "sellTxHashes must be a non-empty array"
                   ELSE ""
        out == registerCapSells(payload.hashes,
                                \E a \in DOMAIN announcedCaps :
                                    GiftIdOf(a) = payload.giftNumber,
                                oracle, ledger, ledgerTransactions)
        handled(line, threw, calls) ==
            lastOp' = Op("multi_sell_text", NoAddress, state.stage, threw, line, calls, {})
    IN /\ registerFlowState[userId] = NoFlow
       /\ state # NoFlow
       /\ IF state.stage = "awaitingTarget"
          THEN /\ handled("Please choose a strategy using the buttons", FALSE, <<>>)
               /\ UNCHANGED <<flowState, ledgerTransactions>>
          ELSE IF payload.kind = "empty"
          THEN /\ handled("Please send the JSON payload as plain text.", FALSE, <<>>)
               /\ UNCHANGED <<flowState, ledgerTransactions>>
          ELSE IF payload.kind = "null"
          THEN \* parsed.giftNumber of null: the TypeError leaves the handler
               /\ handled("", TRUE, <<>>)
               /\ UNCHANGED <<flowState, ledgerTransactions>>
          ELSE IF refusal # ""
          THEN /\ handled(refusal, FALSE, <<>>)
               /\ flowState' = [flowState EXCEPT ![userId] = NoFlow]
               /\ UNCHANGED ledgerTransactions
          ELSE /\ Len(out.transactions) <= MaxTransactions
               /\ handled(IF out.threw THEN "Failed to register sell transactions"
                          ELSE "CapStrategy sell transactions registered", FALSE, out.calls)
               /\ flowState' = [flowState EXCEPT ![userId] = NoFlow]
               /\ ledgerTransactions' = out.transactions
       /\ UNCHANGED <<announcedCaps, subscribedChats, ledgerPosts, fieldSelectState, editState,
                      announcedFile, registerFlowState>>

(***************************************************************************)
(* The poll cycle.                                                         *)
(***************************************************************************)
RECURSIVE SeqsUpTo(_, _)
SeqsUpTo(S, n) ==
    IF n = 0 THEN {<<>>}
    ELSE LET shorter == SeqsUpTo(S, n - 1)
         IN shorter \cup {Append(q, x) : q \in shorter, x \in S}

\* the poll responses over the given reports; a response whose flag is off
\* carries the probe entry, which the cycle must ignore
PollDatas(capReports, saleReports) ==
    LET capProbe == <<CHOOSE r \in capReports : TRUE>>
        saleProbe == <<CHOOSE r \in saleReports : TRUE>>
    IN {data \in [hasNew : BOOLEAN, newCaps : SeqsUpTo(capReports, MaxBatch),
                  hasNewSales : BOOLEAN, newSales : SeqsUpTo(saleReports, MaxBatch)] :
            /\ Len(data.newCaps) + Len(data.newSales) <= MaxBatch
            /\ ~data.hasNew => data.newCaps = capProbe
            /\ ~data.hasNewSales => data.newSales = saleProbe}

\* the responses that carry nothing to process; a payload flagged as
\* unsuccessful can still carry data, which the cycle must ignore
FailedResponses(capReports) ==
    {Response(kind, FALSE, FALSE, NoData) : kind \in {"http", "timeout", "json"}}
    \cup {Response("payload", TRUE, FALSE, NoData)}
    \cup {Response("payload", FALSE, TRUE,
                   [NoData EXCEPT !.hasNew = TRUE, !.newCaps = <<r>>]) : r \in capReports}

\* the end of pollOnce: the map, the snapshot file when something was new
PollEnds(out, data) ==
    /\ \A k \in DOMAIN out.caps : idsBounded(out.caps[k])
    /\ announcedCaps' = out.caps
    /\ announcedFile' = IF out.persistNeeded
                        THEN persistAnnouncedAddresses(out.caps) ELSE announcedFile
    /\ lastOp' = [Op("poll", NoAddress, "NONE", FALSE, out.line, <<>>, out.sent)
                     EXCEPT !.sales = IF out.line = "" /\ data.hasNewSales
                                      THEN data.newSales ELSE <<>>,
                            !.newCaps = IF out.line = "" /\ data.hasNew
                                        THEN addressesOf(data.newCaps) ELSE <<>>,
                            !.logged = out.logged,
                            !.failed = out.failed]
    /\ UNCHANGED <<subscribedChats, ledgerPosts, registration, fieldSelectState, editState>>
\* one execution of pollOnce; a chat's gateway behaves the same way for
\* every message of the cycle
PollCycle(response, d) == PollEnds(pollOnce(announcedCaps, response, d), response.data)

\* pollOnce when the request fails, times out, or is flagged unsuccessful
PollNothing(response) == PollCycle(response, Delivered)

\* pollOnce on a response with data
Poll(data, d) == PollCycle(OkResponse(data), d)

(***************************************************************************)
(* Poll cycles and approvals in flight.                                    *)
(***************************************************************************)
\* executions of pollOnce started and not settled; the counter stops here
MaxRunning == 2
\* currentPollPromise = null
NoPromise == 0
\* the promise a new cycle creates: not the one in flight, if there is one
newPromise(current) == IF current = 1 THEN 2 ELSE 1

\* !(!currentPollPromise)
pollInFlightNever(promise) == FALSE
pollInFlight(promise) == promise # NoPromise

\* runPollCycle(), called by startPolling, by the interval timer or by the
\* manual trigger: it starts pollOnce, which runs up to its fetch, unless a
\* cycle is in flight, and returns currentPollPromise
runPollCycle(trigger) ==
    IF pollInFlight(currentPollPromise)
    THEN /\ lastOp' = [Op("runPollCycle", NoAddress, "NONE", FALSE, trigger, <<>>, {})
                          EXCEPT !.promise = currentPollPromise]
         /\ UNCHANGED <<currentPollPromise, pollOnceRunning>>
    ELSE /\ pollOnceRunning < MaxRunning
         /\ pollOnceRunning' = pollOnceRunning + 1
         /\ currentPollPromise' = newPromise(currentPollPromise)
         /\ lastOp' = [Op("runPollCycle", NoAddress, "NONE", FALSE, trigger, <<Call("fetch", TRUE, 0, 0, 0)>>, {})
                          EXCEPT !.promise = newPromise(currentPollPromise)]

\* setInterval(() => runPollCycle(), pollIntervalMs), and the initial cycle
TimerTick ==
    /\ runPollCycle("timer")
    /\ UNCHANGED <<announcedCaps, subscribedChats, ledgerPosts, registration, fieldSelectState,
                   editState, announcedFile, approvals>>

\* callback_query "manual_poll_CAPSTRATEGY" pressed in chatId
ManualPoll(chatId) ==
    /\ IF chatId \in allowedChatIds
       THEN runPollCycle("manual")
       ELSE /\ lastOp' = Op("manual_poll", NoAddress, "NONE", FALSE, "Not authorized", <<>>, {})
            /\ UNCHANGED <<currentPollPromise, pollOnceRunning>>
    /\ UNCHANGED <<announcedCaps, subscribedChats, ledgerPosts, registration, fieldSelectState,
                   editState, announcedFile, approvals>>

\* an execution of pollOnce gets its response, runs to its end, and the
\* finally of the cycle that wraps it resets currentPollPromise
PollSettlesKeepsPromise(response, d) ==
    /\ pollOnceRunning > 0
    /\ PollCycle(response, d)
    /\ pollOnceRunning' = pollOnceRunning - 1
    /\ UNCHANGED <<currentPollPromise, approvals>>
PollSettles(response, d) ==
    /\ pollOnceRunning > 0
    /\ PollCycle(response, d)
    /\ pollOnceRunning' = pollOnceRunning - 1
    /\ currentPollPromise' = NoPromise
    /\ UNCHANGED approvals
\* the updates the dispatcher can have in flight at once
Handlers == {1, 2}
\* no approve_ update is being handled
NoApproval == [pc |-> "idle", address |-> NoAddress]

(***************************************************************************)
(* approveCap, await by await.  A handler is suspended at the await named  *)
(* by pc: a ledger request ("buy", "cap", "sell", "sold"), the snapshot    *)
(* write that follows a stored record or a new state, or the refresh.      *)
(***************************************************************************)
\* a suspended approve_ handler: the item, the state found there, the cap
\* held (const cap = stored.item), the answer its request will get, the
\* requests made so far, and the stored cap as its last step left it
Approval(pc, address, before, cap, pending, calls, seen) ==
    [pc |-> pc, address |-> address, before |-> before, cap |-> cap,
     pending |-> pending, calls |-> calls, seen |-> seen]

\* what a handler does between two awaits: the stored cap it leaves, the
\* await it reaches ("done" and "failed" end the handler), the request it
\* issues and the answer in store for it, and whether the snapshot write
\* it was waiting for has been made
Step(stored, pc, calls, pending, persist) ==
    [stored |-> stored, pc |-> pc, calls |-> calls, pending |-> pending, persist |-> persist]

\* ensureApprovalPrerequisites from the identifier of the buy record on
afterBuyStored(stored, cap, ledger, persist) ==
    LET buyTransactionId == extractIdentifier(stored.buyTransactionRecord)
    IN IF buyTransactionId = 0 THEN Step(stored, "failed", <<>>, Failed, persist)
       ELSE IF needsCapRecord(stored)
       THEN Step(stored, "cap", <<createCapRecord(cap, buyTransactionId, ledger)>>,
                 ledger.cap, persist)
       ELSE Step([stored EXCEPT !.state = "APPROVED"], "persist", <<>>, Failed, persist)

\* the sale branch from the identifier of the sell record on
afterSellStored(address, stored, cap, ledger, persist) ==
    LET sellTransactionId == extractIdentifier(stored.sellTransactionRecord)
        soldCall == markCapAsSold(GiftIdOf(address), tonToNano(cap.salePriceTon),
                                  saleTimeSource(cap).ms, sellTransactionId, ledger)
    IN IF sellTransactionId = 0 THEN Step(stored, "failed", <<>>, Failed, persist)
       ELSE Step(stored, "sold", <<soldCall>>, ledger.sold, persist)

\* approveCap up to its first await
approveBegin(address, stored, ledger) ==
    LET cap == stored.item
    IN IF stored.state = "SOLD_APPROVED" THEN Step(stored, "refresh", <<>>, Failed, FALSE)
       ELSE IF stored.state \in {"SOLD_PUBLISHED", "SOLD_REJECTED", "APPROVED_SOLD"}
       THEN IF salePriceUnavailable(tonToNano(cap.salePriceTon))
            THEN Step(stored, "failed", <<>>, Failed, FALSE)
            ELSE IF saleTimeSource(cap).kind # "num"
            THEN Step(stored, "failed", <<>>, Failed, FALSE)
            ELSE IF needsSellTransaction(stored)
            THEN Step(stored, "sell",
                      <<createSellTransactionRecord(cap, saleTimeSource(cap).ms, ledger)>>,
                      ledger.sell, FALSE)
            ELSE afterSellStored(address, stored, cap, ledger, FALSE)
       ELSE IF stored.state \in {"APPROVED", "REJECTED"} /\ hasSaleTime(stored.item)
       THEN Step([stored EXCEPT !.state = "APPROVED_SOLD"], "persist", <<>>, Failed, FALSE)
       ELSE IF needsBuyTransaction(stored)
       THEN Step(stored, "buy", <<createTransactionRecord(cap, ledger)>>, ledger.buy, FALSE)
       ELSE afterBuyStored(stored, cap, ledger, FALSE)

\* approveCap from the await it was suspended at to the next one
approveResume(approval, stored, ledger) ==
    LET pc == approval.pc
        cap == approval.cap
        pending == approval.pending
        failed == Step(stored, "failed", <<>>, Failed, FALSE)
    IN CASE pc = "buy" ->
               IF ~pending.ok THEN failed
               ELSE Step([stored EXCEPT !.buyTransactionRecord = pending.record],
                         "buyPersist", <<>>, Failed, FALSE)
         [] pc = "buyPersist" -> afterBuyStored(stored, cap, ledger, TRUE)
         [] pc = "cap" ->
               IF ~pending.ok THEN failed
               ELSE Step([stored EXCEPT !.capStrRecord = pending.record],
                         "capPersist", <<>>, Failed, FALSE)
         [] pc = "capPersist" ->
               Step([stored EXCEPT !.state = "APPROVED"], "persist", <<>>, Failed, TRUE)
         [] pc = "sell" ->
               IF ~pending.ok THEN failed
               ELSE Step([stored EXCEPT !.sellTransactionRecord = pending.record],
                         "sellPersist", <<>>, Failed, FALSE)
         [] pc = "sellPersist" ->
               afterSellStored(approval.address, stored, cap, ledger, TRUE)
         [] pc = "sold" ->
               IF ~pending.ok THEN failed
               ELSE Step([stored EXCEPT !.capStrRecord = pending.record,
                                        !.state = "SOLD_APPROVED"],
                         "persist", <<>>, Failed, FALSE)
         [] pc = "persist" -> Step(stored, "refresh", <<>>, Failed, TRUE)
         [] OTHER -> Step(stored, "done", <<>>, Failed, FALSE)

\* handler h takes a step: the ledger receives the request issued, the
\* snapshot is written from the map as the step found it (unless the disk
\* fails), the refresh is run by the step that ends the approval
ApprovalTakes(h, address, before, cap, calls, step, disk, d) ==
    LET allCalls == calls \o step.calls
        after == IF step.pc = "done"
                 THEN refreshCapMessage(address, step.stored, d) ELSE step.stored
        sent == IF step.pc = "done" THEN refreshSent(address, step.stored, d) ELSE {}
    IN /\ idsBounded(after)
       /\ announcedCaps' = [announcedCaps EXCEPT ![address] = after]
       /\ ledgerPosts' = recordCalls(ledgerPosts, address, step.calls)
       /\ announcedFile' = IF step.persist /\ disk
                           THEN persistAnnouncedAddresses(announcedCaps) ELSE announcedFile
       /\ IF step.pc \in {"done", "failed"}
          THEN /\ approvals' = [approvals EXCEPT ![h] = NoApproval]
               /\ lastOp' = [Op("approve", address, before, step.pc = "failed",
                                IF step.pc = "failed" THEN "Approval failed" ELSE "Approved",
                                allCalls, sent)
                                EXCEPT !.failed = IF step.pc = "done"
                                                  THEN refreshFailed(address, step.stored, d)
                                                  ELSE {}]
          ELSE /\ approvals' = [approvals EXCEPT ![h] =
                                   Approval(step.pc, address, before, cap, step.pending,
                                            allCalls, after)]
               /\ UNCHANGED lastOp
       /\ UNCHANGED <<subscribedChats, fieldSelectState, editState, registration,
                      currentPollPromise, pollOnceRunning>>

\* callback_query "approve_<address>" reaches handler h
ApproveBegins(h, address, ledger) ==
    /\ approvals[h] = NoApproval
    /\ IF ~has(address)
       THEN /\ lastOp' = Op("approve", address, "NONE", TRUE, "Approval failed", <<>>, {})
            /\ UNCHANGED <<announcedCaps, subscribedChats, ledgerPosts, registration, fieldSelectState,
                           editState, announcedFile, currentPollPromise, pollOnceRunning,
                           approvals>>
       ELSE ApprovalTakes(h, address, stateOf(address), announcedCaps[address].item, <<>>,
                          approveBegin(address, announcedCaps[address], ledger), TRUE, Delivered)

\* the await handler h is suspended at settles
ApproveResumes(h, ledger, disk, d) ==
    /\ approvals[h] # NoApproval
    /\ LET approval == approvals[h]
       IN ApprovalTakes(h, approval.address, approval.before, approval.cap, approval.calls,
                        approveResume(approval, announcedCaps[approval.address], ledger),
                        disk, d)

\* the process stops at any await and is started again: the map is loaded
\* from the snapshot file, and everything else is as at start-up
CrashAndRestart ==
    /\ \E caps \in LoadedCaps(announcedFile) : announcedCaps' = caps
    /\ subscribedChats' = Chats
    /\ fieldSelectState' = [c \in Chats |-> NoAddress]
    /\ editState' = [u \in Users |-> NoEdit]
    /\ currentPollPromise' = NoPromise
    /\ pollOnceRunning' = 0
    /\ approvals' = [h \in Handlers |-> NoApproval]
    /\ lastOp' = [Op("restart", NoAddress, "NONE", FALSE, "", <<>>, {})
                     EXCEPT !.pressed = [u \in Users |-> {}]]
    /\ registerFlowState' = [u \in Users |-> NoFlow]
    /\ flowState' = [u \in Users |-> NoFlow]
    /\ UNCHANGED <<ledgerPosts, ledgerTransactions, announcedFile>>

(***************************************************************************)
(* Specification Spec: the lifecycle against the ledger.  One item, every  *)
(* ledger answer, every sale price and sale time; the gateway delivers.    *)
(***************************************************************************)
Init ==
    /\ announcedCaps = <<>>
    /\ subscribedChats = Chats
    /\ ledgerPosts = [k \in Keys |-> [kind \in LedgerKinds |-> 0]]
    /\ fieldSelectState = [c \in Chats |-> NoAddress]
    /\ editState = [u \in Users |-> NoEdit]
    /\ lastOp = [op |-> "start", address |-> NoAddress, before |-> "NONE", threw |-> FALSE,
                 answer |-> "", calls |-> <<>>, sent |-> {}, failed |-> {}, sales |-> <<>>,
                 newCaps |-> <<>>, logged |-> <<>>, promise |-> 0,
                 pressed |-> [u \in Users |-> {}]]
    /\ announcedFile = <<>>
    /\ currentPollPromise = NoPromise
    /\ pollOnceRunning = 0
    /\ approvals = [h \in Handlers |-> NoApproval]
    /\ registerFlowState = [u \in Users |-> NoFlow]
    /\ flowState = [u \in Users |-> NoFlow]
    /\ ledgerTransactions = <<>>

\* the ledger answers that the approval of this cap can depend on
RelevantAnswers(address) ==
    IF ~has(address) \/ announcedCaps[address].state = "SOLD_APPROVED"
    THEN {[buy |-> Failed, cap |-> Failed, sell |-> Failed, sold |-> Failed]}
    ELSE IF isSoldState(announcedCaps[address].state)
    THEN {l \in LedgerAnswers : l.buy = Failed /\ l.cap = Failed}
    ELSE {l \in LedgerAnswers : l.sell = Failed /\ l.sold = Failed}

\* the specifications of one item use the key X
OneKey == {"X"}

\* the poll responses of this specification that carry nothing to process
LedgerFailedResponses ==
    FailedResponses({CapSummary(k, NullStr, PriceNum(OneTon), t) :
                        k \in OneKey, t \in {TimeUndefined, TimeNull}})

Next ==
    \/ \E address \in OneKey : \E ledger \in RelevantAnswers(address) :
          Approve(address, ledger, Delivered) /\ Sequential
    \/ \E address \in OneKey : Reject(address, Delivered) /\ Sequential
    \/ \E address \in OneKey : EditPress(1, address, 1, 1) /\ Sequential
    \* select_field_4 (Sale Price), select_field_6 (Sale Time), and an index
    \* past the list
    \/ \E index \in {4, 6, 12} : SelectField(1, 1, index) /\ Sequential
    \/ \E newValue \in IF editState[1].field = "Sale Price"
                        THEN {"0", "0.0000000005", "0.0000000015", "1"}
                        ELSE {"abc", "1700", "Infinity"} :
          EditText(1, newValue, Delivered) /\ Sequential
    \/ \E response \in LedgerFailedResponses : PollNothing(response) /\ Sequential
    \/ \E data \in PollDatas({CapSummary(k, NullStr, PriceNum(OneTon), t) :
                                 k \in OneKey, t \in {TimeUndefined, TimeNull}},
                             {CapSummary(k, NullStr, p, TimeUndefined) :
                                 k \in OneKey, p \in {PriceNull, PriceNum(OneTon)}}) :
          Poll(data, Delivered) /\ Sequential

Spec == Init /\ [][Next]_vars

(***************************************************************************)
(* Specification SpecGateway: messages and subscriptions.  The ledger      *)
(* answers every request; each chat's edit and send can succeed or fail;   *)
(* chats subscribe and unsubscribe.                                        *)
(***************************************************************************)
WorkingLedger ==
    [buy |-> Answered(RespData(1)), cap |-> Answered(RespTop(3)),
     sell |-> Answered(RespTop(2)), sold |-> Answered(RespData(4))]

\* the poll responses of this specification: a new item, or its sale
GatewayPollDatas ==
    PollDatas({CapSummary(k, NullStr, PriceNum(OneTon), TimeUndefined) : k \in OneKey},
              {CapSummary(k, NullStr, PriceNum(OneTon), TimeNum(SaleAtMs)) : k \in OneKey})

NextGateway ==
    \/ \E address \in OneKey, d \in Deliveries :
          Approve(address, WorkingLedger, d) /\ Sequential
    \/ \E address \in OneKey, d \in Deliveries : Reject(address, d) /\ Sequential
    \/ \E chatId \in Chats \cup {OtherChat} : Subscribe(chatId) /\ Sequential
    \/ \E chatId \in Chats \cup {OtherChat} : Unsubscribe(chatId) /\ Sequential
    \/ \E response \in FailedResponses({CapSummary(k, NullStr, PriceNum(OneTon),
                                                     TimeUndefined) : k \in OneKey}) :
          PollNothing(response) /\ Sequential
    \/ \E data \in GatewayPollDatas, d \in [Chats -> {"edited", "lost"}] :
          Poll(data, d) /\ Sequential

SpecGateway == Init /\ [][NextGateway]_vars

(***************************************************************************)
(* Specification SpecMerge: sale merges against manual edits.  Reports and *)
(* edits vary the name, the sale price and the sale time.                  *)
(***************************************************************************)
\* the texts the operator types for the selected field
MergeTexts(field) ==
    CASE field = "Name" -> Names
      [] field = "Sale Price" -> {"abc", "1"}
      [] OTHER -> {"1700", "abc"}

NextMerge ==
    \/ \E address \in OneKey : EditPress(1, address, 1, 1) /\ Sequential
    \* select_field_1 (Name), select_field_4 (Sale Price), select_field_6 (Sale Time)
    \/ \E index \in {1, 4, 6} : SelectField(1, 1, index) /\ Sequential
    \/ \E newValue \in MergeTexts(editState[1].field) :
          EditText(1, newValue, Delivered) /\ Sequential
    \/ \E response \in FailedResponses({CapSummary(k, NullStr, PriceNull, TimeUndefined) :
                                            k \in OneKey}) :
          PollNothing(response) /\ Sequential
    \/ \E data \in PollDatas({CapSummary(k, NullStr, PriceNull, TimeUndefined) :
                                 k \in OneKey}
                             \cup {CapSummary(k, "A", PriceNum(OneTon), TimeNum(SaleAtMs)) :
                                      k \in OneKey},
                             {CapSummary(k, n, p, TimeNum(DetectedAtMs)) :
                                 k \in OneKey, n \in {NullStr, "B"},
                                 p \in {PriceNull, PriceNum(3)}}) :
          Poll(data, Delivered) /\ Sequential

SpecMerge == Init /\ [][NextMerge]_vars

(***************************************************************************)
(* Specification SpecRefresh: every handler that ends with a message       *)
(* refresh (approval, rejection, edit dialog, sale merge) against a        *)
(* gateway that edits, answers "not modified", or fails, chat by chat.     *)
(***************************************************************************)
NextRefresh ==
    \/ \E address \in OneKey : Approve(address, WorkingLedger, Delivered) /\ Sequential
    \/ \E address \in OneKey, d \in Deliveries : Reject(address, d) /\ Sequential
    \/ \E address \in OneKey : EditPress(1, address, 1, 1) /\ Sequential
    \* select_field_9 is Tx Hash
    \/ SelectField(1, 1, 9) /\ Sequential
    \/ \E d \in Deliveries : EditText(1, "0xabc", d) /\ Sequential
    \/ Unsubscribe(2) /\ Sequential
    \/ \E data \in GatewayPollDatas, d \in [Chats -> {"edited", "lost"}] :
          Poll(data, d) /\ Sequential

SpecRefresh == Init /\ [][NextRefresh]_vars

(***************************************************************************)
(* Specification SpecAsync: handlers in flight together.  Two approve_     *)
(* updates and the poll cycle, each suspended at its awaits; the timer and *)
(* the manual trigger call runPollCycle at any time.                       *)
(***************************************************************************)
NextAsync ==
    \/ TimerTick
    \/ \E chatId \in Chats \cup {OtherChat} : ManualPoll(chatId)
    \/ \E response \in {OkResponse(data) : data \in GatewayPollDatas}
                          \cup {Response(kind, FALSE, FALSE, NoData) :
                                   kind \in {"http", "timeout"}} :
          PollSettles(response, Delivered)
    \/ \E h \in Handlers, address \in OneKey :
          ApproveBegins(h, address, WorkingLedger)
    \/ \E h \in Handlers : ApproveResumes(h, WorkingLedger, TRUE, Delivered)

SpecAsync == Init /\ [][NextAsync]_vars

\* the interval timer keeps firing, and a request that is in flight gets its
\* response or is aborted after 15 seconds
SpecAsyncFair ==
    /\ SpecAsync
    /\ WF_vars(TimerTick)
    /\ WF_vars(\E kind \in {"http", "timeout"} :
                  PollSettles(Response(kind, FALSE, FALSE, NoData), Delivered))

(***************************************************************************)
(* Specification SpecCrash: one update at a time, on a process that can    *)
(* stop at any await of approveCap and on a disk that can refuse a write.  *)
(***************************************************************************)
\* no approve_ handler is suspended
Quiet == \A h \in Handlers : approvals[h] = NoApproval
\* a ledger that answers every request, and one that refuses every request
CrashLedgers ==
    {WorkingLedger, [buy |-> Failed, cap |-> Failed, sell |-> Failed, sold |-> Failed]}

NextCrash ==
    \/ \E data \in GatewayPollDatas : Quiet /\ Poll(data, Delivered) /\ Sequential
    \/ \E address \in OneKey : Quiet /\ Reject(address, Delivered) /\ Sequential
    \/ \E address \in OneKey, ledger \in CrashLedgers : ApproveBegins(1, address, ledger)
    \/ \E ledger \in CrashLedgers, disk \in BOOLEAN : ApproveResumes(1, ledger, disk, Delivered)
    \/ CrashAndRestart

SpecCrash == Init /\ [][NextCrash]_vars

(***************************************************************************)
(* Specification SpecReload: two items, the edit dialog on the field       *)
(* Getgems Address, and a process that restarts from the snapshot file     *)
(* between updates.                                                        *)
(***************************************************************************)
ReloadPollDatas ==
    PollDatas({CapSummary(k, NullStr, PriceNum(OneTon), TimeUndefined) : k \in Keys},
              {CapSummary(k, NullStr, PriceNum(OneTon), TimeNum(SaleAtMs)) : k \in Keys})

NextReload ==
    \/ \E data \in ReloadPollDatas : Poll(data, Delivered) /\ Sequential
    \/ \E address \in Keys : Reject(address, Delivered) /\ Sequential
    \/ \E address \in Keys : EditPress(1, address, 1, 1) /\ Sequential
    \* select_field_0 is Getgems Address
    \/ SelectField(1, 1, 0) /\ Sequential
    \/ \E newValue \in Keys : EditText(1, newValue, Delivered) /\ Sequential
    \/ CrashAndRestart

SpecReload == Init /\ [][NextReload]_vars

(***************************************************************************)
(* Specification SpecDialog: the edit dialogs of two users in one chat.    *)
(* Two items are announced and sold; either user presses Edit on either    *)
(* item, selects the field Name and types a name, in any order.            *)
(***************************************************************************)
NextDialog ==
    \/ \E data \in ReloadPollDatas : Poll(data, Delivered) /\ Sequential
    \/ \E userId \in Users : \E address \in Keys :
          EditPress(userId, address, 1, 1) /\ Sequential
    \/ \E userId \in Users : SelectField(1, userId, 1) /\ Sequential
    \/ \E userId \in Users : \E newValue \in {"A", "B"} :
          EditText(userId, newValue, Delivered) /\ Sequential

SpecDialog == Init /\ [][NextDialog]_vars

(***************************************************************************)
(* Specification SpecRegister: the registration flows of one user on one   *)
(* item that a poll announces and an approval gives its cap record.  The   *)
(* payloads name the item's gift number or one that no item has; the       *)
(* oracle and the ledger answer or fail, request by request.               *)
(***************************************************************************)
\* the payloads of both flows: no text, text that is no JSON, the JSON value
\* null, an object without its hashes or with a gift number that is no
\* number, and an object naming the item's gift number or another one
RegisterPayloads ==
    {[kind |-> k, giftNumber |-> 0, hashes |-> <<>>] :
        k \in {"empty", "invalid", "null", "missing", "nan"}}
    \cup {[kind |-> "object", giftNumber |-> g, hashes |-> <<"h1", "h2", "h3">>] :
             g \in {7, 9}}
\* the ledger's answers to the four kinds of request
RegisterLedgers ==
    LET ok == [SELL |-> "ok", BUY |-> "ok", BURN |-> "ok", PATCH |-> "ok"]
    IN {ok, [ok EXCEPT !.SELL = "fail"], [ok EXCEPT !.BUY = "fail"],
        [ok EXCEPT !.BURN = "fail"], [ok EXCEPT !.BURN = "noid"],
        [ok EXCEPT !.PATCH = "fail"]}

NextRegister ==
    \/ \E data \in GatewayPollDatas : Poll(data, Delivered) /\ Sequential
    \/ \E address \in OneKey : Approve(address, WorkingLedger, Delivered) /\ Sequential
    \/ \E chatId \in {1, OtherChat} : RegisterCommand(chatId, 1) /\ Sequential
    \/ \E targetId \in {"CAPSTRATEGY", "OTHER"} : RegisterTarget(1, targetId) /\ Sequential
    \/ \E payload \in RegisterPayloads, ledger \in RegisterLedgers :
          \E oracle \in {[h \in {"h1", "h2", "h3"} |-> IF h = "h2" THEN o ELSE "ok"] :
                             o \in {"ok", "zero", "fail"}} :
             RegisterText(1, payload, oracle, ledger) /\ Sequential
    \/ \E chatId \in {1, OtherChat} : MultiSellCommand(chatId, 1) /\ Sequential
    \/ \E targetId \in {"CAPSTRATEGY", "OTHER"} : MultiSellTarget(1, targetId) /\ Sequential
    \/ \E payload \in RegisterPayloads, ledger \in RegisterLedgers :
          \E oracle \in {[h \in {"h1", "h2", "h3"} |-> IF h = "h2" THEN o ELSE "ok"] :
                             o \in {"ok", "zero", "fail"}} :
             MultiSellText(1, payload, oracle, ledger) /\ Sequential

SpecRegister == Init /\ [][NextRegister]_vars

(***************************************************************************)
(* findCapByGiftNumber.  The store is given as announcedCaps.values(), the *)
(* entries in insertion order; an entry is returned by reference, which is *)
(* its position in that order (0 stands for undefined).                    *)
(***************************************************************************)
\* capStrRecord as the search reads it: null, or an object; `data` is absent,
\* an object or a scalar; SellTransaction and sellTransaction are the
\* properties of (record.data ?? record): absent, null, or a value
CapRecord(kind, data, SellTransaction, sellTransaction) ==
    [kind |-> kind, data |-> data,
     SellTransaction |-> SellTransaction, sellTransaction |-> sellTransaction]
\* the entries of the store: giftId, capNumber (0 for null) and the record
FindCaps ==
    [giftId : {7, 8}, capNumber : {0, 7},
     capStrRecord : {CapRecord("null", "absent", "absent", "absent"),
                     CapRecord("obj", "absent", "absent", "absent"),
                     CapRecord("obj", "object", "null", "absent"),
                     CapRecord("obj", "object", "set", "absent"),
                     CapRecord("obj", "absent", "null", "set"),
                     CapRecord("obj", "scalar", "absent", "absent")}]

isSellTransactionPendingAnyRecord(record) == record.kind # "null"
isSellTransactionPending(record) ==
    IF record.kind = "null" THEN FALSE
    ELSE IF record.data = "scalar" THEN FALSE
    ELSE LET sellTransaction ==
                 IF record.SellTransaction \notin {"absent", "null"}
                 THEN record.SellTransaction
                 ELSE IF record.sellTransaction \notin {"absent", "null"}
                 THEN record.sellTransaction
                 ELSE "null"
         IN sellTransaction = "null"

findCapByGiftNumber(values, giftNumber) ==
    LET matches ==
            SelectSeq([i \in DOMAIN values |-> i],
                      LAMBDA i : \/ values[i].giftId = giftNumber
                                 \/ values[i].capNumber = giftNumber)
        withCapRecord ==
            SelectSeq(matches, LAMBDA i : values[i].capStrRecord.kind # "null")
        pendingSell ==
            SelectSeq(withCapRecord,
                      LAMBDA i : isSellTransactionPending(values[i].capStrRecord))
    IN IF matches = <<>> THEN 0
       ELSE IF pendingSell # <<>> THEN Head(pendingSell)
       ELSE IF withCapRecord # <<>> THEN Head(withCapRecord)
       ELSE Head(matches)

\* a caller looks up a gift number
Find(giftNumber) ==
    /\ lastOp' = [op |-> "find", giftNumber |-> giftNumber,
                  found |-> findCapByGiftNumber(announcedCaps, giftNumber)]
    /\ UNCHANGED <<announcedCaps, subscribedChats, ledgerPosts, registration, fieldSelectState,
                   editState, announcedFile>>
    /\ Sequential

(***************************************************************************)
(* Specification SpecFind: findCapByGiftNumber on every store of up to     *)
(* MaxStored entries, looked up by a gift number that is a giftId, one     *)
(* that is also a capNumber, and one that no entry has.                    *)
(***************************************************************************)
InitFind ==
    /\ announcedCaps \in SeqsUpTo(FindCaps, MaxStored)
    /\ subscribedChats = Chats
    /\ ledgerPosts = [k \in Keys |-> [kind \in LedgerKinds |-> 0]]
    /\ fieldSelectState = [c \in Chats |-> NoAddress]
    /\ editState = [u \in Users |-> NoEdit]
    /\ lastOp = [op |-> "start", address |-> NoAddress, before |-> "NONE", threw |-> FALSE,
                 answer |-> "", calls |-> <<>>, sent |-> {}, failed |-> {}, sales |-> <<>>,
                 newCaps |-> <<>>, logged |-> <<>>, promise |-> 0,
                 pressed |-> [u \in Users |-> {}]]
    /\ announcedFile = <<>>
    /\ currentPollPromise = NoPromise
    /\ pollOnceRunning = 0
    /\ approvals = [h \in Handlers |-> NoApproval]
    /\ registerFlowState = [u \in Users |-> NoFlow]
    /\ flowState = [u \in Users |-> NoFlow]
    /\ ledgerTransactions = <<>>

SpecFind == InitFind /\ [][\E giftNumber \in {7, 8, 9} : Find(giftNumber)]_vars

(***************************************************************************)
(* Properties.  A step of a handler is recognised by lastOp': the address  *)
(* it ran on and the state it found there (before).                        *)
(***************************************************************************)
\* the item has no sale time (undefined or null)
SaleTimeUnset(item) == item.saleTime.kind \in {"undefined", "null"}
ApproveStep(a) == lastOp'.op = "approve" /\ lastOp'.address = a /\ lastOp'.before # "NONE"
RejectStep(a) == lastOp'.op = "reject" /\ lastOp'.address = a /\ lastOp'.before # "NONE"
SaleStates == {"SOLD_PUBLISHED", "SOLD_REJECTED", "APPROVED_SOLD"}
\* the requests of one kind among the last handler's ledger requests
CallsOf(op, kind) == {i \in DOMAIN op.calls : op.calls[i].call = kind}
\* no request is made for a record that is already stored
NoRepeatedPost(a) ==
    /\ CallsOf(lastOp', "buy") # {} => announcedCaps[a].buyTransactionRecord = NullRecord
    /\ CallsOf(lastOp', "cap") # {} => announcedCaps[a].capStrRecord = NullRecord
    /\ CallsOf(lastOp', "sell") # {} => announcedCaps[a].sellTransactionRecord = NullRecord

\* C1: for every item, the ledger accepts at most one buy POST, one cap POST
\* and one sell POST, and no approval issues the POST of a record whose
\* reference is already stored.
C1_PostsAtMostOnce ==
    [][\A k \in Keys :
          /\ ledgerPosts'[k].buy <= 1
          /\ ledgerPosts'[k].cap <= 1
          /\ ledgerPosts'[k].sell <= 1
          /\ ApproveStep(k) => NoRepeatedPost(k)]_vars

\* an Approve pressed on an item that has all three records and is SOLD_APPROVED
C1_Witness ==
    /\ has("X")
    /\ ledgerPosts["X"].buy = 1 /\ ledgerPosts["X"].cap = 1 /\ ledgerPosts["X"].sell = 1
    /\ lastOp.op = "approve" /\ lastOp.before = "SOLD_APPROVED"

\* the second of two Approve presses in a row, the first on a PUBLISHED item
\* and answered "Approved"
SecondApprove(a) ==
    /\ lastOp.op = "approve" /\ lastOp.address = a
    /\ lastOp.before = "PUBLISHED" /\ ~lastOp.threw
    /\ ApproveStep(a)
TwiceApproved(a) ==
    /\ announcedCaps[a].state = "APPROVED"
    /\ announcedCaps'[a].state = "APPROVED"
    /\ ~lastOp'.threw
    /\ ledgerPosts'[a].buy = 1
    /\ ledgerPosts'[a].cap = 1

\* C2 (as amended): Approve twice in a row on a PUBLISHED item that has no
\* sale time, the first answered "Approved": the item is APPROVED after the
\* first and after the second call, and the ledger holds exactly one buy
\* record and one cap record of it.
C2_ApproveTwiceWithoutSaleTime ==
    [][\A a \in Keys :
          (SecondApprove(a) /\ SaleTimeUnset(announcedCaps[a].item)) => TwiceApproved(a)]_vars

\* C2 as stated: the same for every PUBLISHED item, whatever its fields
C2_ApproveTwiceAnyItem ==
    [][\A a \in Keys : SecondApprove(a) => TwiceApproved(a)]_vars

\* an Approve on an APPROVED item without sale time left it APPROVED
C2_Witness ==
    /\ has("X")
    /\ lastOp.op = "approve" /\ lastOp.before = "APPROVED" /\ lastOp.calls = <<>>
    /\ announcedCaps["X"].state = "APPROVED"
    /\ SaleTimeUnset(announcedCaps["X"].item)
    /\ ledgerPosts["X"].buy = 1 /\ ledgerPosts["X"].cap = 1

C4_ApprovalOrder ==
    [][\A a \in Keys :
          /\ (a \in DOMAIN announcedCaps' /\ announcedCaps'[a].state = "APPROVED") =>
                /\ announcedCaps'[a].buyTransactionRecord # NullRecord
                /\ announcedCaps'[a].capStrRecord # NullRecord
          /\ (ApproveStep(a) /\ lastOp'.before = "PUBLISHED") =>
                LET before == announcedCaps[a]
                    after == announcedCaps'[a]
                    calls == lastOp'.calls
                    kinds == [i \in DOMAIN calls |-> calls[i].call]
                IN /\ kinds \in {<<>>, <<"buy">>, <<"cap">>, <<"buy", "cap">>}
                   /\ CallsOf(lastOp', "buy") # {} <=> before.buyTransactionRecord = NullRecord
                   /\ \A i \in CallsOf(lastOp', "cap") :
                         /\ before.capStrRecord = NullRecord
                         /\ after.buyTransactionRecord # NullRecord
                         /\ calls[i].identifier # 0
                         /\ calls[i].identifier = extractIdentifier(after.buyTransactionRecord)
                         /\ \A j \in CallsOf(lastOp', "buy") : calls[j].ok
                   /\ after.state = "APPROVED" <=> ~lastOp'.threw
                   /\ after.state = "APPROVED" => \A i \in DOMAIN calls : calls[i].ok
                   /\ (/\ Approve(a, WorkingLedger, Delivered)
                       /\ \/ before.buyTransactionRecord = NullRecord
                          \/ extractIdentifier(before.buyTransactionRecord) # 0)
                         => after.state = "APPROVED"]_vars

\* an Approve that made the buy POST and then the cap POST and ended APPROVED
C4_Witness ==
    /\ has("X")
    /\ lastOp.op = "approve" /\ lastOp.before = "PUBLISHED"
    /\ Len(lastOp.calls) = 2
    /\ lastOp.calls[1].call = "buy" /\ lastOp.calls[2].call = "cap"
    /\ lastOp.calls[2].identifier = 1
    /\ announcedCaps["X"].state = "APPROVED"

\* floor(salePriceTon * 10^9) of a numeric price
FloorNano(price) == price.units \div 2
\* the stored sell record, if any, carries an identifier
SellRecordUsable(stored) ==
    \/ stored.sellTransactionRecord = NullRecord
    \/ extractIdentifier(stored.sellTransactionRecord) # 0
\* the requests of a successful sale approval: the sell POST when no sell
\* record was stored, then one markCapAsSold with the sell record's
\* identifier, the amount and the sale time
SaleApprovalCalls(before, after, amount) ==
    LET time == before.item.saleTime.ms
    IN (IF before.sellTransactionRecord = NullRecord
        THEN <<Call("sell", TRUE, 0, amount, time)>> ELSE <<>>)
       \o <<Call("sold", TRUE, extractIdentifier(after.sellTransactionRecord), amount, time)>>
SaleApproved(a, amount) ==
    LET before == announcedCaps[a]
        after == announcedCaps'[a]
    IN /\ after.state = "SOLD_APPROVED"
       /\ ~lastOp'.threw /\ lastOp'.answer = "Approved"
       /\ after.sellTransactionRecord # NullRecord
       /\ before.sellTransactionRecord # NullRecord
             => after.sellTransactionRecord = before.sellTransactionRecord
       /\ lastOp'.calls = SaleApprovalCalls(before, after, amount)
\* an Approve on a sold-phase item that has a sale time, the ledger working
SaleApproveStep(a) ==
    /\ ApproveStep(a) /\ lastOp'.before \in SaleStates
    /\ announcedCaps[a].item.salePriceTon.kind = "num"
    /\ announcedCaps[a].item.saleTime.kind = "num"
    /\ SellRecordUsable(announcedCaps[a])
    /\ Approve(a, WorkingLedger, Delivered)

PriceUnavailable(item) ==
    \/ item.salePriceTon.kind = "null"
    \/ item.salePriceTon.kind = "num" /\ item.salePriceTon.units <= 0
\* the approval failed: no sell record created, markCapAsSold not called,
\* nothing changed, a failure reply
ApprovalRefused(a) ==
    /\ lastOp'.threw /\ lastOp'.answer = "Approval failed"
    /\ \A i \in CallsOf(lastOp', "sell") : ~lastOp'.calls[i].ok
    /\ CallsOf(lastOp', "sold") = {}
    /\ announcedCaps'[a].state = announcedCaps[a].state
    /\ announcedCaps'[a].sellTransactionRecord = announcedCaps[a].sellTransactionRecord
    /\ ledgerPosts' = ledgerPosts

\* C6 (as amended): Approve on a sold-phase item whose sale price is missing
\* or not greater than 0, or whose sale time is not a finite number, fails:
\* no sell POST, no markCapAsSold, the state unchanged, the reply "Approval
\* failed".  (A missing sale time is replaced by the detection time.)
C6_SaleApprovalRefused ==
    [][\A a \in Keys :
          (/\ ApproveStep(a) /\ lastOp'.before \in SaleStates
           /\ \/ PriceUnavailable(announcedCaps[a].item)
              \/ announcedCaps[a].item.saleTime.kind = "infinity")
             => ApprovalRefused(a)]_vars

\* C6 as stated: a missing sale time fails the approval too
C6_MissingSaleTimeRefused ==
    [][\A a \in Keys :
          (/\ ApproveStep(a) /\ lastOp'.before \in SaleStates
           /\ \/ PriceUnavailable(announcedCaps[a].item)
              \/ SaleTimeUnset(announcedCaps[a].item))
             => ApprovalRefused(a)]_vars

\* an Approve on a SOLD_PUBLISHED item without sale price was refused
C6_Witness ==
    /\ has("X")
    /\ lastOp.op = "approve" /\ lastOp.before = "SOLD_PUBLISHED"
    /\ announcedCaps["X"].item.salePriceTon = PriceNull
    /\ lastOp.threw /\ lastOp.calls = <<>>
    /\ announcedCaps["X"].state = "SOLD_PUBLISHED"

\* C7: when a ledger write fails during approveCap the state is unchanged,
\* the call fails, every record stored before the call and every record
\* whose POST succeeded in the call is stored after it; and no Approve
\* repeats the POST of a stored record.
C7_FailedWriteKeepsState ==
    [][\A a \in Keys :
          ApproveStep(a) =>
             LET before == announcedCaps[a]
                 after == announcedCaps'[a]
                 calls == lastOp'.calls
             IN /\ NoRepeatedPost(a)
                /\ (\E i \in DOMAIN calls : ~calls[i].ok) =>
                      /\ after.state = before.state
                      /\ lastOp'.threw /\ lastOp'.answer = "Approval failed"
                      /\ before.buyTransactionRecord # NullRecord
                            => after.buyTransactionRecord = before.buyTransactionRecord
                      /\ before.capStrRecord # NullRecord
                            => after.capStrRecord = before.capStrRecord
                      /\ before.sellTransactionRecord # NullRecord
                            => after.sellTransactionRecord = before.sellTransactionRecord
                      /\ \A i \in DOMAIN calls :
                            /\ (calls[i].ok /\ calls[i].call = "buy")
                                  => after.buyTransactionRecord # NullRecord
                            /\ (calls[i].ok /\ calls[i].call = "sell")
                                  => after.sellTransactionRecord # NullRecord]_vars

\* the buy POST succeeded and the cap POST failed: PUBLISHED, buy record kept
C7_Witness ==
    /\ has("X")
    /\ lastOp.op = "approve" /\ lastOp.before = "PUBLISHED" /\ lastOp.threw
    /\ Len(lastOp.calls) = 2
    /\ lastOp.calls[1].ok /\ ~lastOp.calls[2].ok
    /\ announcedCaps["X"].state = "PUBLISHED"
    /\ announcedCaps["X"].buyTransactionRecord # NullRecord

\* the transition table of a sale merge
SaleStateAfter(prior) ==
    CASE prior \in {"APPROVED", "APPROVED_SOLD"} -> "APPROVED_SOLD"
      [] prior \in {"REJECTED", "SOLD_REJECTED"} -> "SOLD_REJECTED"
      [] prior = "SOLD_APPROVED" -> "SOLD_APPROVED"
      [] prior \in {"PUBLISHED", "SOLD_PUBLISHED"} -> "SOLD_PUBLISHED"
RecordsOf(stored) ==
    <<stored.buyTransactionRecord, stored.capStrRecord, stored.sellTransactionRecord>>

\* C8: a poll cycle that delivers a sale event for key k: an unknown k is
\* inserted SOLD_PUBLISHED without records; a known k moves by the table
\* (APPROVED, APPROVED_SOLD -> APPROVED_SOLD; REJECTED, SOLD_REJECTED ->
\* SOLD_REJECTED; SOLD_APPROVED stays; PUBLISHED, SOLD_PUBLISHED ->
\* SOLD_PUBLISHED) with its three records unchanged; no ledger write.
C8_SaleMergeTable ==
    [][lastOp'.op = "poll" =>
          /\ lastOp'.calls = <<>>
          /\ ledgerPosts' = ledgerPosts
          /\ \A i \in DOMAIN lastOp'.sales :
                LET k == lastOp'.sales[i].offchainGetgemsAddress
                IN /\ k \in DOMAIN announcedCaps'
                   /\ IF has(k)
                      THEN /\ announcedCaps'[k].state = SaleStateAfter(announcedCaps[k].state)
                           /\ RecordsOf(announcedCaps'[k]) = RecordsOf(announcedCaps[k])
                      ELSE /\ announcedCaps'[k].state = "SOLD_PUBLISHED"
                           /\ RecordsOf(announcedCaps'[k])
                                 = <<NullRecord, NullRecord, NullRecord>>]_vars

\* a sale was merged into a rejected item that has a buy record
C8_Witness ==
    /\ has("X")
    /\ lastOp.op = "poll" /\ Len(lastOp.sales) = 1
    /\ announcedCaps["X"].state = "SOLD_REJECTED"
    /\ announcedCaps["X"].buyTransactionRecord # NullRecord

\* the values a field can hold
NameValue(n) == n # NullStr
PriceValue(p) == p.kind # "null"
TimeValue(t) == t.kind \notin {"undefined", "null"}

\* C9: a sale merge into a known item: with hasManualChanges true, a field
\* (name, sale price, sale time) that has a value in the stored item and in
\* an incoming sale keeps the stored value; with hasManualChanges false, a
\* field that has a value in the stored item and in every incoming sale of
\* the cycle takes the value of the last one.
C9_ManualEditPrecedence ==
    [][(lastOp'.op = "poll" /\ lastOp'.sales # <<>>) =>
          LET sales == lastOp'.sales
              last == sales[Len(sales)]
          IN \A k \in Keys :
                (has(k) /\ \A i \in DOMAIN sales : sales[i].offchainGetgemsAddress = k) =>
                   LET old == announcedCaps[k].item
                       new == announcedCaps'[k].item
                   IN IF announcedCaps[k].hasManualChanges
                      THEN /\ (NameValue(old.name) /\ \E i \in DOMAIN sales : NameValue(sales[i].name))
                                 => new.name = old.name
                           /\ (PriceValue(old.salePriceTon)
                               /\ \E i \in DOMAIN sales : PriceValue(sales[i].salePriceTon))
                                 => new.salePriceTon = old.salePriceTon
                           /\ (TimeValue(old.saleTime)
                               /\ \E i \in DOMAIN sales : TimeValue(sales[i].saleTime))
                                 => new.saleTime = old.saleTime
                      ELSE /\ (NameValue(old.name) /\ \A i \in DOMAIN sales : NameValue(sales[i].name))
                                 => new.name = last.name
                           /\ (PriceValue(old.salePriceTon)
                               /\ \A i \in DOMAIN sales : PriceValue(sales[i].salePriceTon))
                                 => new.salePriceTon = last.salePriceTon
                           /\ (TimeValue(old.saleTime)
                               /\ \A i \in DOMAIN sales : TimeValue(sales[i].saleTime))
                                 => new.saleTime = last.saleTime]_vars

\* a sale named "B" was merged into a manually edited item named "A"
C9_Witness ==
    /\ has("X")
    /\ lastOp.op = "poll" /\ Len(lastOp.sales) = 1
    /\ lastOp.sales[1].name = "B"
    /\ announcedCaps["X"].hasManualChanges
    /\ announcedCaps["X"].item.name = "A"

\* every chat that had a message and whose gateway accepts the edit, or the
\* send after a failed edit, gets the refreshed message without buttons
RefreshedWithoutButtons(a, state) ==
    \A d \in Deliveries :
        Reject(a, d) =>
           \A c \in Chats :
              (announcedCaps[a].messageIds[c] # 0 /\ d[c] \in {"edited", "resent"}) =>
                 \E m \in lastOp'.sent :
                    /\ m.chatId = c /\ m.address = a
                    /\ m.state = state /\ m.keyboard = EmptyKeyboard
RejectedTo(a, state) ==
    /\ announcedCaps'[a].state = state
    /\ lastOp'.answer = "Rejected"
    /\ \A m \in lastOp'.sent : m.state = state /\ m.keyboard = EmptyKeyboard
    /\ RefreshedWithoutButtons(a, state)

\* C10 (as amended): the Reject button on a PUBLISHED or APPROVED item moves
\* it to REJECTED, and the refreshed message in every chat that had a
\* message has the empty keyboard; on a SOLD_PUBLISHED, SOLD_APPROVED or
\* APPROVED_SOLD item it changes nothing, sends nothing and answers "Sale
\* rejection review coming soon".
C10_RejectButton ==
    [][\A a \in Keys :
          RejectStep(a) =>
             /\ lastOp'.before \in {"PUBLISHED", "APPROVED"} => RejectedTo(a, "REJECTED")
             /\ lastOp'.before \in {"SOLD_PUBLISHED", "SOLD_APPROVED", "APPROVED_SOLD"} =>
                   /\ announcedCaps' = announcedCaps
                   /\ lastOp'.sent = {}
                   /\ lastOp'.answer = "Sale rejection review coming soon"]_vars

\* C10 as stated: the Reject button moves a sold item to SOLD_REJECTED
C10_RejectButtonOnSoldItems ==
    [][\A a \in Keys :
          RejectStep(a) =>
             /\ lastOp'.before \in {"PUBLISHED", "APPROVED"} => RejectedTo(a, "REJECTED")
             /\ lastOp'.before \in {"SOLD_PUBLISHED", "SOLD_APPROVED", "APPROVED_SOLD"} =>
                   RejectedTo(a, "SOLD_REJECTED")]_vars

\* an APPROVED item was rejected and its message edited
C10_Witness ==
    /\ has("X")
    /\ lastOp.op = "reject" /\ lastOp.before = "APPROVED"
    /\ announcedCaps["X"].state = "REJECTED"
    /\ \E m \in lastOp.sent : m.kind = "edit" /\ m.keyboard = EmptyKeyboard

\* C11: an Approve that found the item APPROVED or REJECTED with a sale time
\* set (neither undefined nor null) leaves it APPROVED_SOLD, answers
\* "Approved" and has made no ledger request: no buy, cap or sell POST
\* and no markCapAsSold.
C11_ApproveWithSaleTimeMarksSold ==
    \A a \in Keys :
        (/\ has(a)
         /\ lastOp.op = "approve" /\ lastOp.address = a
         /\ lastOp.before \in {"APPROVED", "REJECTED"}
         /\ ~SaleTimeUnset(announcedCaps[a].item))
           => /\ announcedCaps[a].state = "APPROVED_SOLD"
              /\ lastOp.calls = <<>>
              /\ ~lastOp.threw /\ lastOp.answer = "Approved"

\* a REJECTED item without records, its sale time typed in by hand, was
\* approved: APPROVED_SOLD, and the ledger has seen nothing of it
C11_Witness ==
    /\ has("X")
    /\ lastOp.op = "approve" /\ lastOp.before = "REJECTED"
    /\ announcedCaps["X"].item.saleTime = TimeNum(SaleAtMs)
    /\ announcedCaps["X"].state = "APPROVED_SOLD"
    /\ announcedCaps["X"].buyTransactionRecord = NullRecord
    /\ ledgerPosts["X"] = [kind \in LedgerKinds |-> 0]

\* C12: Approve on a SOLD_APPROVED item makes no ledger request, leaves the
\* state, the item's fields, the three records and the snapshot file as
\* they were and answers "Approved"; it runs the message refresh: every
\* message it delivers is that of SOLD_APPROVED, and every chat that has a
\* message and accepts the edit gets one.
C12_ApproveOfApprovedSaleOnlyRefreshes ==
    [][\A a \in Keys :
          (ApproveStep(a) /\ lastOp'.before = "SOLD_APPROVED") =>
             /\ lastOp'.calls = <<>>
             /\ ledgerPosts' = ledgerPosts
             /\ ~lastOp'.threw /\ lastOp'.answer = "Approved"
             /\ announcedCaps'[a].state = "SOLD_APPROVED"
             /\ announcedCaps'[a].item = announcedCaps[a].item
             /\ RecordsOf(announcedCaps'[a]) = RecordsOf(announcedCaps[a])
             /\ announcedFile' = announcedFile
             /\ \A m \in lastOp'.sent : m.state = "SOLD_APPROVED" /\ m.address = a
             /\ \A d \in Deliveries :
                   Approve(a, WorkingLedger, d) =>
                      \A c \in Chats :
                         (announcedCaps[a].messageIds[c] # 0 /\ d[c] = "edited") =>
                            \E m \in lastOp'.sent : m.chatId = c /\ m.kind = "edit"]_vars

\* a second Approve on a SOLD_APPROVED item edited its message
C12_Witness ==
    /\ has("X")
    /\ lastOp.op = "approve" /\ lastOp.before = "SOLD_APPROVED"
    /\ announcedCaps["X"].state = "SOLD_APPROVED"
    /\ announcedCaps["X"].sellTransactionRecord # NullRecord
    /\ \E m \in lastOp.sent : m.kind = "edit" /\ m.state = "SOLD_APPROVED"

(***************************************************************************)
(* C13: at most one execution of pollOnce is in progress at any time; a    *)
(* call of runPollCycle (timer or manual trigger) made while a cycle is in *)
(* progress returns the promise of that cycle and starts no second fetch.  *)
(***************************************************************************)
C13_OnePollCycleAtATime ==
    [][/\ pollOnceRunning' <= 1
       /\ ((TimerTick \/ \E chatId \in allowedChatIds : ManualPoll(chatId))
           /\ pollOnceRunning > 0)
             => /\ lastOp'.promise = currentPollPromise
                /\ lastOp'.promise # NoPromise
                /\ lastOp'.calls = <<>>
                /\ pollOnceRunning' = pollOnceRunning
                /\ currentPollPromise' = currentPollPromise]_vars

C13_Witness ==
    /\ lastOp.op = "runPollCycle"
    /\ lastOp.answer = "manual"
    /\ lastOp.calls = <<>>
    /\ lastOp.promise = currentPollPromise
    /\ pollOnceRunning = 1
    /\ \E h \in Handlers : approvals[h] # NoApproval

(***************************************************************************)
(* C14: a poll cycle whose newCaps are all keys of the store inserts,      *)
(* overwrites and changes nothing, sends no message and appends nothing to *)
(* the raw log; no key ever leaves the store and every new cap of a cycle  *)
(* is a key after it, so the same response processed a second time, with   *)
(* approvals, rejections and edits in between, changes nothing more.       *)
(***************************************************************************)
C14_KnownCapsAreIgnored ==
    [][/\ DOMAIN announcedCaps \subseteq DOMAIN announcedCaps'
       /\ (lastOp'.op = "poll" /\ lastOp'.sales = <<>>)
             => LET reported == {lastOp'.newCaps[i] : i \in DOMAIN lastOp'.newCaps}
                IN /\ reported \subseteq DOMAIN announcedCaps'
                   /\ reported \subseteq DOMAIN announcedCaps
                         => /\ announcedCaps' = announcedCaps
                            /\ announcedFile' = announcedFile
                            /\ ledgerPosts' = ledgerPosts
                            /\ lastOp'.sent = {}
                            /\ lastOp'.logged = <<>>]_vars

C14_Witness ==
    /\ lastOp.op = "poll"
    /\ lastOp.newCaps = <<"X">>
    /\ lastOp.sales = <<>>
    /\ lastOp.sent = {}
    /\ lastOp.logged = <<>>
    /\ has("X")
    /\ announcedCaps["X"].state = "APPROVED"
    /\ announcedCaps["X"].hasManualChanges

(***************************************************************************)
(* C15: a poll cycle with hasNew and one new cap whose key X is not in the *)
(* store (and no sale in the same response), every send succeeding, leaves *)
(* X in the store in state PUBLISHED with no ledger record; one message    *)
(* with the action keyboard was sent to each subscribed chat (and to no    *)
(* other) and its id is in messageIds; the raw log gained exactly the      *)
(* entry for X.                                                            *)
(***************************************************************************)
C15_NewCapAnnounced ==
    [][(lastOp'.op = "poll" /\ Len(lastOp'.newCaps) = 1 /\ lastOp'.sales = <<>>) =>
       \A data \in GatewayPollDatas :
          (/\ Poll(data, Delivered)
           /\ data.hasNew /\ Len(data.newCaps) = 1
           /\ ~(data.hasNewSales /\ Len(data.newSales) > 0)
           /\ ~has(data.newCaps[1].offchainGetgemsAddress))
             => LET X == data.newCaps[1].offchainGetgemsAddress
                    after == announcedCaps'[X]
                IN /\ DOMAIN announcedCaps' = DOMAIN announcedCaps \cup {X}
                   /\ \A k \in DOMAIN announcedCaps : announcedCaps'[k] = announcedCaps[k]
                   /\ after.state = "PUBLISHED"
                   /\ after.item = data.newCaps[1]
                   /\ after.buyTransactionRecord = NullRecord
                   /\ after.capStrRecord = NullRecord
                   /\ after.sellTransactionRecord = NullRecord
                   /\ ledgerPosts' = ledgerPosts
                   /\ subscribedChats' = subscribedChats
                   /\ lastOp'.sent = {Sent(X, c, "send", "PUBLISHED", buildActionKeyboard(X)) :
                                         c \in subscribedChats}
                   /\ \A c \in Chats :
                         after.messageIds[c] = IF c \in subscribedChats THEN 1 ELSE 0
                   /\ after.publishedChatIds = subscribedChats
                   /\ lastOp'.logged = <<X>>
                   /\ ~lastOp'.threw]_vars

C15_Witness ==
    /\ lastOp.op = "poll"
    /\ lastOp.newCaps = <<"X">>
    /\ lastOp.logged = <<"X">>
    /\ subscribedChats = {2}
    /\ lastOp.sent = {Sent("X", 2, "send", "PUBLISHED", buildActionKeyboard("X"))}
    /\ has("X")
    /\ announcedCaps["X"].state = "PUBLISHED"
    /\ announcedCaps["X"].messageIds = [c \in Chats |-> IF c = 2 THEN 1 ELSE 0]

(***************************************************************************)
(* C16: a poll cycle whose request fails (status not 2xx, timeout, body    *)
(* that does not parse) or whose payload has success = false or no data    *)
(* leaves the store, the raw log and the snapshot file as they were,       *)
(* sends no message, and pollOnce returns without throwing.                *)
(***************************************************************************)
C16_FailedPollChangesNothing ==
    [][lastOp'.op = "poll" =>
       \A response \in LedgerFailedResponses :
          PollNothing(response)
             => /\ announcedCaps' = announcedCaps
                /\ announcedFile' = announcedFile
                /\ ledgerPosts' = ledgerPosts
                /\ lastOp'.sent = {}
                /\ lastOp'.logged = <<>>
                /\ ~lastOp'.threw
                /\ lastOp'.answer # ""]_vars

C16_Witness ==
    /\ lastOp.op = "poll"
    /\ lastOp.answer = "Poll succeeded but response flagged as unsuccessful"
    /\ lastOp.sent = {}
    /\ lastOp.logged = <<>>
    /\ ~has("Y")
    /\ has("X")
    /\ announcedCaps["X"].state = "SOLD_APPROVED"

(***************************************************************************)
(* C17: when the edit or the send fails for a chat during a refresh, the   *)
(* refresh still delivers to every other target chat whose gateway works;  *)
(* the state and the records the transition set are kept; the handler      *)
(* ends without an error.                                                  *)
(***************************************************************************)
C17_DeliveryFailureIsLocal ==
    [][(lastOp'.op \in {"approve", "reject"} /\ has(lastOp'.address)) =>
       LET a == lastOp'.address
           before == announcedCaps[a]
           after == announcedCaps'[a]
           refreshed == lastOp'.answer # "Sale rejection review coming soon"
           transitioned == IF ~refreshed THEN before
                           ELSE IF lastOp'.op = "approve"
                           THEN approveCap(a, before, WorkingLedger).stored
                           ELSE rejectCap(before)
           delivered(c, kind) ==
               Sent(a, c, kind, after.state, replyMarkup(a, after.state)) \in lastOp'.sent
           logged(c, kind) == Failure(a, c, kind) \in lastOp'.failed
           kept(c) == after.messageIds[c] = before.messageIds[c]
       IN /\ after.state = transitioned.state
          /\ after.item = transitioned.item
          /\ RecordsOf(after) = RecordsOf(transitioned)
          /\ ~lastOp'.threw
          /\ lastOp'.op = "approve" => lastOp'.answer = "Approved"
          /\ refreshed =>
                \A c \in before.publishedChatIds \cup subscribedChats :
                   \/ before.messageIds[c] # 0 /\ delivered(c, "edit") /\ kept(c)
                   \/ /\ delivered(c, "send")
                      /\ after.messageIds[c] = before.messageIds[c] + 1
                      /\ c \in after.publishedChatIds
                   \/ logged(c, "send") /\ kept(c)
                   \/ before.messageIds[c] # 0 /\ ~logged(c, "edit") /\ kept(c)]_vars

C17_Witness ==
    /\ lastOp.op = "approve"
    /\ lastOp.before = "PUBLISHED"
    /\ ~lastOp.threw
    /\ has("X")
    /\ announcedCaps["X"].state = "APPROVED"
    /\ announcedCaps["X"].capStrRecord # NullRecord
    /\ subscribedChats = Chats
    /\ announcedCaps["X"].messageIds = [c \in Chats |-> IF c = 2 THEN 1 ELSE 0]
    /\ lastOp.failed = {Failure("X", 1, "send")}
    /\ lastOp.sent = {Sent("X", 2, "send", "APPROVED", EmptyKeyboard)}

(***************************************************************************)
(* C18: after a transition, a sale merge (a poll cycle that merged one     *)
(* sale) or an edit whose refresh logged no delivery failure, every chat   *)
(* of publishedChatIds and subscribedChats has a message id and is in      *)
(* publishedChatIds, and what the gateway took for it is the rendering of  *)
(* the item's state; a chat that had a message got at most an edit, no     *)
(* send, and keeps its id (an edit answered "message is not modified"      *)
(* included); a chat that had none got one send and its id is recorded.    *)
(***************************************************************************)
C18_RefreshReachesEveryChat ==
    [][LET sale == IF lastOp'.op = "poll" /\ Len(lastOp'.sales) = 1
                   THEN lastOp'.sales[1].offchainGetgemsAddress ELSE NoAddress
           a == CASE lastOp'.op = "poll" -> sale
                  [] lastOp'.op = "approve" /\ ~lastOp'.threw -> lastOp'.address
                  [] lastOp'.op = "reject" /\ lastOp'.answer = "Rejected" -> lastOp'.address
                  [] lastOp'.op = "text" -> lastOp'.address
                  [] OTHER -> NoAddress
       IN (has(a) /\ lastOp'.failed = {}) =>
          LET before == announcedCaps[a]
              after == announcedCaps'[a]
              edit(c) == Sent(a, c, "edit", after.state, replyMarkup(a, after.state))
              send(c) == Sent(a, c, "send", after.state, replyMarkup(a, after.state))
              to(c) == {m \in lastOp'.sent : m.chatId = c /\ m.address = a}
          IN \A c \in after.publishedChatIds \cup before.publishedChatIds \cup subscribedChats :
                /\ after.messageIds[c] # 0
                /\ c \in after.publishedChatIds
                /\ IF before.messageIds[c] # 0
                   THEN /\ to(c) \subseteq {edit(c)}
                        /\ after.messageIds[c] = before.messageIds[c]
                   ELSE /\ to(c) = {send(c)}
                        /\ after.messageIds[c] = 1]_vars

C18_Witness ==
    /\ lastOp.op = "text"
    /\ lastOp.failed = {}
    /\ has("X")
    /\ announcedCaps["X"].state = "SOLD_PUBLISHED"
    /\ announcedCaps["X"].isEdited
    /\ subscribedChats = {1}
    /\ announcedCaps["X"].publishedChatIds = Chats
    /\ announcedCaps["X"].messageIds = [c \in Chats |-> 1]
    /\ lastOp.sent = {Sent("X", 2, "send", "SOLD_PUBLISHED", buildActionKeyboard("X"))}

(***************************************************************************)
(* C19: with two approve_ handlers for one item and the poll cycle each    *)
(* suspended at any of its awaits, no transition changes an item while     *)
(* another is in progress on it (a suspended approval finds the state, the *)
(* item and the records as it left them), and the ledger accepts the buy   *)
(* POST and the cap POST of an item at most once.                          *)
(***************************************************************************)
C19_TransitionsDoNotInterleave ==
    /\ \A h \in Handlers :
          approvals[h] # NoApproval =>
             LET stored == announcedCaps[approvals[h].address]
                 seen == approvals[h].seen
             IN /\ stored.state = seen.state
                /\ stored.item = seen.item
                /\ RecordsOf(stored) = RecordsOf(seen)
    /\ \A k \in OneKey : ledgerPosts[k].buy <= 1 /\ ledgerPosts[k].cap <= 1

(***************************************************************************)
(* C20: when the process stops at any await of approveCap, or a snapshot   *)
(* write fails, and Approve is pressed again after the restart has loaded  *)
(* the snapshot, no buy, cap or sell record the ledger already accepted is *)
(* POSTed a second time.                                                   *)
(***************************************************************************)
C20_RestartDoesNotRepost ==
    \A k \in OneKey :
       \A kind \in {"buy", "cap", "sell"} : ledgerPosts[k][kind] < 2

(***************************************************************************)
(* C21: no operation removes an item from the store (approval, rejection,  *)
(* edit, poll cycle, restart from the snapshot file): after a step the     *)
(* store never holds fewer items than before it.                           *)
(***************************************************************************)
C21_ItemsAreNeverRemoved ==
    [][Cardinality(DOMAIN announcedCaps') >= Cardinality(DOMAIN announcedCaps)]_vars

(***************************************************************************)
(* C22: every entry of the store is kept under the key that is its item's  *)
(* offchainGetgemsAddress.                                                 *)
(***************************************************************************)
C22_KeyIsItemAddress ==
    \A k \in DOMAIN announcedCaps : announcedCaps[k].item.offchainGetgemsAddress = k

(***************************************************************************)
(* C23: between two handlers (no operation in progress) the snapshot file  *)
(* holds what a write of the store as it is now would hold: state, fields, *)
(* records, publishedChatIds and messageIds of every item.                 *)
(***************************************************************************)
C23_SnapshotEqualsStore ==
    announcedFile = persistAnnouncedAddresses(announcedCaps)

(***************************************************************************)
(* C24: findCapByGiftNumber(n) returns undefined exactly when no stored    *)
(* item has giftId or capNumber n; otherwise the item returned matches n,  *)
(* and it has a cap record whose sell transaction is pending if a matching *)
(* item has one, else it has a cap record if a matching item has one, else *)
(* it is the first match in store order.                                   *)
(***************************************************************************)
SellPending(record) ==
    /\ record.kind = "obj"
    /\ record.data # "scalar"
    /\ record.SellTransaction # "set"
    /\ record.sellTransaction # "set"

C24_FindPrefersPendingSale ==
    lastOp.op = "find" =>
       LET n == lastOp.giftNumber
           found == lastOp.found
           Matches == {i \in DOMAIN announcedCaps :
                          announcedCaps[i].giftId = n \/ announcedCaps[i].capNumber = n}
           HasRecord(i) == announcedCaps[i].capStrRecord.kind = "obj"
           Pending(i) == SellPending(announcedCaps[i].capStrRecord)
       IN /\ (found = 0) <=> (Matches = {})
          /\ found # 0 =>
                /\ found \in Matches
                /\ IF \E i \in Matches : Pending(i) THEN Pending(found)
                   ELSE IF \E i \in Matches : HasRecord(i) THEN HasRecord(found)
                   ELSE \A i \in Matches : found <= i

\* two items share the number 7; the first has no cap record, the second a
\* cap record whose sell transaction is pending: the second is returned
C24_Witness ==
    /\ lastOp.op = "find"
    /\ lastOp.giftNumber = 7
    /\ Len(announcedCaps) = 2
    /\ announcedCaps[1].giftId = 7
    /\ announcedCaps[1].capStrRecord.kind = "null"
    /\ announcedCaps[2].capNumber = 7
    /\ SellPending(announcedCaps[2].capStrRecord)
    /\ lastOp.found = 2

(***************************************************************************)
(* C25: an Approve or Reject that did nothing because the item key is not  *)
(* in the store is not acknowledged as done: the answer to the button      *)
(* press is neither "Approved" nor "Rejected".                             *)
(***************************************************************************)
C25_NothingDoneIsNotAcknowledged ==
    (lastOp.op \in {"approve", "reject"} /\ lastOp.before = "NONE")
        => lastOp.answer \notin {"Approved", "Rejected"}

(***************************************************************************)
(* C26: a text typed while an edit session is open for a stored item sets  *)
(* isEdited and hasManualChanges, writes the snapshot and refreshes the    *)
(* message in every chat; a text that is no number leaves the sale time as *)
(* it was, a text typed for another field becomes the field's value; the   *)
(* state and the three records are unchanged.                              *)
(***************************************************************************)
\* the item an edit is to leave: the text typed, read as the field's value
TypedItem(item, field, text) ==
    CASE field = "Name" -> [item EXCEPT !.name = text]
      [] field = "Sale Price" ->
            [item EXCEPT !.salePriceTon = IF text = "1" THEN PriceNum(OneTon) ELSE PriceText]
      [] field = "Sale Time (UTC)" ->
            IF text = "1700" THEN [item EXCEPT !.saleTime = TimeNum(SaleAtMs)] ELSE item
      [] OTHER -> item

C26_EditSetsFlagsAndField ==
    [][(lastOp'.op = "text" /\ lastOp'.before # "NONE") =>
       \A newValue \in MergeTexts(editState[1].field) :
          EditText(1, newValue, Delivered) =>
             LET a == editState[1].capAddress
                 before == announcedCaps[a]
                 after == announcedCaps'[a]
             IN /\ after.isEdited
                /\ after.hasManualChanges
                /\ after.item = TypedItem(before.item, editState[1].field, newValue)
                /\ after.state = before.state
                /\ RecordsOf(after) = RecordsOf(before)
                /\ has(a) /\ announcedFile'[a] = toJson(after)
                /\ lastOp'.sent =
                      {Sent(a, c, "edit", after.state, replyMarkup(a, after.state)) :
                          c \in targetChats(before)}
                /\ editState'[1] = NoEdit]_vars

\* "abc" typed for the sale time of an item that has one
C26_Witness ==
    /\ lastOp.op = "text"
    /\ lastOp.answer = "Sale Time (UTC)"
    /\ has("X")
    /\ announcedCaps["X"].item.saleTime = TimeNum(DetectedAtMs)
    /\ announcedCaps["X"].item.name = "B"
    /\ announcedCaps["X"].hasManualChanges
    /\ announcedCaps["X"].state = "SOLD_PUBLISHED"

(***************************************************************************)
(* C27: no item is ever in state PARTIAL_PUBLISHED: after every step each  *)
(* item's state is one of PUBLISHED, APPROVED, REJECTED, SOLD_PUBLISHED,   *)
(* SOLD_APPROVED, SOLD_REJECTED, APPROVED_SOLD; an item enters the store   *)
(* in a poll cycle, as SOLD_PUBLISHED if the cycle reports its sale and as *)
(* PUBLISHED otherwise.                                                    *)
(***************************************************************************)
C27_StatesInUse ==
    [][\A k \in DOMAIN announcedCaps' :
          /\ announcedCaps'[k].state \in
                {"PUBLISHED", "APPROVED", "REJECTED", "SOLD_PUBLISHED",
                 "SOLD_APPROVED", "SOLD_REJECTED", "APPROVED_SOLD"}
          /\ k \notin DOMAIN announcedCaps =>
                /\ lastOp'.op = "poll"
                /\ announcedCaps'[k].state =
                      IF \E i \in DOMAIN lastOp'.sales :
                            lastOp'.sales[i].offchainGetgemsAddress = k
                      THEN "SOLD_PUBLISHED" ELSE "PUBLISHED"]_vars

\* an item first seen as a sale
C27_Witness ==
    /\ lastOp.op = "poll"
    /\ lastOp.sales # <<>>
    /\ has("X")
    /\ announcedCaps["X"].state = "SOLD_PUBLISHED"
    /\ ~announcedCaps["X"].isEdited

(***************************************************************************)
(* C28: the subscribed chats are always chats of the allow-list; a         *)
(* /subscribe or /unsubscribe from a chat outside it changes nothing and   *)
(* is answered as not authorized; no message of an item is sent to a chat  *)
(* outside the allow-list.                                                 *)
(***************************************************************************)
C28_SubscribersAreAllowed ==
    [][/\ subscribedChats' \subseteq allowedChatIds
       /\ \A m \in lastOp'.sent : m.chatId \in allowedChatIds
       /\ \A k \in DOMAIN announcedCaps' :
             announcedCaps'[k].publishedChatIds \subseteq allowedChatIds
       /\ Subscribe(OtherChat) =>
             /\ UNCHANGED <<subscribedChats, announcedCaps, announcedFile>>
             /\ lastOp'.answer = "Chat not authorized to subscribe"
       /\ Unsubscribe(OtherChat) =>
             /\ UNCHANGED <<subscribedChats, announcedCaps, announcedFile>>
             /\ lastOp'.answer = "Chat not authorized to unsubscribe"]_vars

\* a chat outside the allow-list asked to subscribe while chat 2 was unsubscribed
C28_Witness ==
    /\ lastOp.op = "subscribe"
    /\ lastOp.answer = "Chat not authorized to subscribe"
    /\ subscribedChats = {1}
    /\ has("X")

(***************************************************************************)
(* C29 (as stated): an item with isEdited set has hasManualChanges set.    *)
(***************************************************************************)
C29_EditedMeansManuallyChanged ==
    \A k \in DOMAIN announcedCaps :
       announcedCaps[k].isEdited => announcedCaps[k].hasManualChanges

(***************************************************************************)
(* C29 (amended): isEdited is set exactly on the items that had a field    *)
(* edited by hand or a sale merged into them by a poll cycle, and          *)
(* hasManualChanges exactly on the items that had a field edited by hand:  *)
(* each step sets the flags of an item so, and never clears them.          *)
(***************************************************************************)
C29_EditedByHandOrBySale ==
    [][\A k \in DOMAIN announcedCaps' :
          LET known == k \in DOMAIN announcedCaps
              typed == lastOp'.op = "text" /\ lastOp'.address = k /\ known
              salesOfK == {i \in DOMAIN lastOp'.sales :
                              lastOp'.sales[i].offchainGetgemsAddress = k}
              announcedNow == \E i \in DOMAIN lastOp'.newCaps : lastOp'.newCaps[i] = k
              merged == /\ lastOp'.op = "poll"
                        /\ \/ salesOfK # {} /\ (known \/ announcedNow)
                           \/ Cardinality(salesOfK) > 1
          IN /\ announcedCaps'[k].isEdited
                   = ((known /\ announcedCaps[k].isEdited) \/ typed \/ merged)
             /\ announcedCaps'[k].hasManualChanges
                   = ((known /\ announcedCaps[k].hasManualChanges) \/ typed)]_vars

\* a sale was merged into an item that no one edited
C29_Witness ==
    /\ lastOp.op = "poll"
    /\ lastOp.sales # <<>>
    /\ has("X")
    /\ announcedCaps["X"].isEdited
    /\ ~announcedCaps["X"].hasManualChanges
    /\ announcedCaps["X"].item.name = "B"

(***************************************************************************)
(* C30: an item in a sold state (SOLD_PUBLISHED, SOLD_APPROVED,            *)
(* SOLD_REJECTED, APPROVED_SOLD) stays in a sold state: no step returns it *)
(* to PUBLISHED, APPROVED or REJECTED, also when the sale is merged while  *)
(* an approval of the item is suspended at a ledger request.               *)
(***************************************************************************)
C30_SoldStaysSold ==
    [][\A k \in DOMAIN announcedCaps :
          isSoldState(announcedCaps[k].state) => isSoldState(announcedCaps'[k].state)]_vars

(***************************************************************************)
(* C31                                                                     *)
(***************************************************************************)
\* C31: in every reachable state an item in state APPROVED has a buy
\* transaction record and a cap record stored, and an item in state
\* SOLD_APPROVED has a sell transaction record and a cap record stored.
C31_ApprovedStatesHaveRecords ==
    \A a \in DOMAIN announcedCaps :
        LET stored == announcedCaps[a]
        IN /\ stored.state = "APPROVED" =>
                /\ stored.buyTransactionRecord # NullRecord
                /\ stored.capStrRecord # NullRecord
           /\ stored.state = "SOLD_APPROVED" =>
                /\ stored.sellTransactionRecord # NullRecord
                /\ stored.capStrRecord # NullRecord

\* a sale was approved on an item that was never approved as a publication:
\* its cap record is the one markCapAsSold returned
C31_Witness ==
    \E a \in DOMAIN announcedCaps :
        /\ lastOp.op = "approve" /\ lastOp.address = a /\ ~lastOp.threw
        /\ lastOp.before = "SOLD_PUBLISHED"
        /\ announcedCaps[a].state = "SOLD_APPROVED"
        /\ announcedCaps[a].buyTransactionRecord = NullRecord
        /\ announcedCaps[a].capStrRecord # NullRecord

(***************************************************************************)
(* C32                                                                     *)
(***************************************************************************)
\* every request of the handler's run was answered by the ledger, and the
\* record a buy POST of this run returned carries an identifier
EveryCallSucceeded(op, after) ==
    /\ \A i \in DOMAIN op.calls : op.calls[i].ok
    /\ CallsOf(op, "buy") # {} => extractIdentifier(after.buyTransactionRecord) # 0

\* C32: after an Approve on a PUBLISHED item has failed, the next Approve
\* on that item, made with the ledger answering every request with a record
\* that carries its identifier, leaves the item APPROVED.
C32_RetryOfFailedApproveSucceeds ==
    [][\A a \in DOMAIN announcedCaps :
          (/\ lastOp.op = "approve" /\ lastOp.address = a
           /\ lastOp.threw /\ lastOp.before = "PUBLISHED"
           /\ ApproveStep(a)
           /\ EveryCallSucceeded(lastOp', announcedCaps'[a]))
          => /\ ~lastOp'.threw
             /\ announcedCaps'[a].state = "APPROVED"]_vars

(***************************************************************************)
(* C33                                                                     *)
(***************************************************************************)
\* the text handler ran for this user's edit session and changed an item
TextStepOf(userId) ==
    /\ lastOp'.op = "text" /\ lastOp'.before # "NONE"
    /\ editState[userId] # NoEdit /\ editState'[userId] = NoEdit

\* C33: the item changed by a user's edit text is an item whose Edit button
\* that same user pressed, under every interleaving of two users' edit
\* dialogs (Edit press, field selection, text) in one chat.
C33_TextEditsThePressedItem ==
    [][\A userId \in Users :
          TextStepOf(userId) /\ lastOp.pressed[userId] # {}
          => lastOp'.address \in lastOp.pressed[userId]]_vars


(***************************************************************************)
(* C34: in the cap sell/buy/burn registration the sellTransactionId that   *)
(* the cap PATCH sends is the identifier of the SELL transaction created   *)
(* by that same submission.                                                *)
(***************************************************************************)
C34_PatchSendsTheSellTransaction ==
    [][lastOp'.op = "register_text"
       => \A i \in DOMAIN lastOp'.calls :
             lastOp'.calls[i].call = "PATCH"
             => LET id == lastOp'.calls[i].identifier
                IN /\ id \in (Len(ledgerTransactions) + 1) .. Len(ledgerTransactions')
                   /\ ledgerTransactions'[id].txType = "SELL"]_vars

\* C34, the parts that hold: requests are made only for an item with a cap
\* record, in the order SELL, BUY, BURN, PATCH, each only after the one
\* before it succeeded, and a submission that does not complete leaves the
\* stored items as they were
C34_WritesInOrderAndGuarded ==
    [][lastOp'.op = "register_text" /\ lastOp'.calls # <<>>
       => LET calls == lastOp'.calls
              order == <<"SELL", "BUY", "BURN", "PATCH">>
          IN /\ announcedCaps[lastOp'.address].capStrRecord.kind # "null"
             /\ Len(calls) <= 4
             /\ \A i \in DOMAIN calls :
                   /\ calls[i].call = order[i]
                   /\ i < Len(calls) => calls[i].ok
             /\ ~(Len(calls) = 4 /\ calls[4].ok)
                   => announcedCaps' = announcedCaps /\ announcedFile' = announcedFile]_vars

(***************************************************************************)
(* C35: a sell/buy/burn payload resubmitted after a submission that failed *)
(* part-way does not create again a transaction the failed submission      *)
(* created.  A BUY transaction that no BURN follows in the ledger was       *)
(* created by a submission that failed at its BURN request.                *)
(***************************************************************************)
C35_ResubmissionCreatesNothingAgain ==
    [][lastOp'.op = "register_text"
       => \A i \in DOMAIN ledgerTransactions :
             /\ ledgerTransactions[i].txType = "BUY"
             /\ (i = Len(ledgerTransactions) \/ ledgerTransactions[i + 1].txType # "BURN")
             => \A j \in (Len(ledgerTransactions) + 1) .. Len(ledgerTransactions') :
                   ledgerTransactions'[j] # ledgerTransactions[i]]_vars

(***************************************************************************)
(* C36: a text message that is not empty, handled in the payload stage of  *)
(* the sell/buy/burn registration, removes the user's flow state.          *)
(***************************************************************************)
C36_PayloadMessageEndsTheDialog ==
    [][\A userId \in Users :
          /\ lastOp'.op = "register_text"
          /\ registerFlowState[userId].stage = "awaitingCapJson"
          /\ \A other \in Users \ {userId} : registerFlowState[other] = NoFlow
          /\ lastOp'.answer # "Please send the JSON payload as plain text."
          => registerFlowState'[userId] = NoFlow]_vars

\* C36, the part that holds: a start command of a user who has a dialog
\* changes nothing
C36_SecondStartIsRefused ==
    [][/\ lastOp'.op \in {"registersellbuyburn", "registersells"}
       /\ lastOp'.before # "none"
       => /\ UNCHANGED <<registerFlowState, flowState, ledgerTransactions, announcedCaps>>
          /\ lastOp'.answer \in {"A transaction registration is already in progress.",
                                 "A multi-sell registration is already in progress.",
                                 "Not authorized to register transactions.",
                                 "Not authorized to register sell transactions."}]_vars


(***************************************************************************)
(* C37: the Reject button on a stored item makes no ledger request and     *)
(* leaves the item's fields, isEdited, hasManualChanges and the three      *)
(* records as they were: what an earlier Approve stored is still stored    *)
(* after the Reject.                                                       *)
(***************************************************************************)
C37_RejectKeepsItemAndRecords ==
    [][\A a \in Keys :
          RejectStep(a)
          => /\ lastOp'.calls = <<>>
             /\ ledgerPosts' = ledgerPosts
             /\ announcedCaps'[a].item = announcedCaps[a].item
             /\ announcedCaps'[a].isEdited = announcedCaps[a].isEdited
             /\ announcedCaps'[a].hasManualChanges = announcedCaps[a].hasManualChanges
             /\ RecordsOf(announcedCaps'[a]) = RecordsOf(announcedCaps[a])]_vars

\* an approved item with its two records has been rejected
C37_Witness ==
    \E a \in DOMAIN announcedCaps :
       /\ lastOp.op = "reject" /\ lastOp.address = a /\ lastOp.before = "APPROVED"
       /\ announcedCaps[a].state = "REJECTED"
       /\ announcedCaps[a].buyTransactionRecord # NullRecord
       /\ announcedCaps[a].capStrRecord # NullRecord


(***************************************************************************)
(* C38: the cycle in flight is the one pollOnce execution that is running; *)
(* when it ends, with a payload, with a failed request or with the request *)
(* aborted at the timeout, currentPollPromise is null again, and a call of *)
(* runPollCycle that finds it null starts a new fetch.                     *)
(***************************************************************************)
C38_GuardIsReleased ==
    /\ [](pollInFlight(currentPollPromise) <=> pollOnceRunning = 1)
    /\ [][/\ lastOp'.op = "poll" => ~pollInFlight(currentPollPromise')
          /\ lastOp'.op = "runPollCycle" /\ ~pollInFlight(currentPollPromise)
             => /\ CallsOf(lastOp', "fetch") # {}
                /\ pollInFlight(currentPollPromise')]_vars

\* C38: while the timer runs, fetches keep being started
C38_PollingNeverStops ==
    []<>(lastOp.op = "runPollCycle" /\ CallsOf(lastOp, "fetch") # {})

\* a cycle whose request was aborted at the timeout has ended, and
\* currentPollPromise is null
C38_Witness ==
    /\ lastOp.op = "poll" /\ lastOp.answer = "Poll request timed out"
    /\ ~pollInFlight(currentPollPromise)
    /\ pollOnceRunning = 0


(***************************************************************************)
(* C39: a handler step sends no new message to a chat that is not          *)
(* subscribed when the step begins (every chat of the allow-list is        *)
(* subscribed at the start, so such a chat has unsubscribed); edits of the *)
(* messages the chat has are not counted.                                  *)
(***************************************************************************)
C39_NoNewMessageAfterUnsubscribe ==
    [][\A c \in Chats :
          c \notin subscribedChats
          => \A m \in lastOp'.sent : ~(m.chatId = c /\ m.kind = "send")]_vars

\* C39, what holds: a new message reaches a chat that is not subscribed only
\* when a stored item is refreshed that lists the chat in publishedChatIds,
\* and the chat has no message of it or the edit of its message failed
C39_OnlyPublishedChatsAreReached ==
    [][\A c \in Chats :
          c \notin subscribedChats
          => \A m \in lastOp'.sent :
                m.chatId = c /\ m.kind = "send"
                => /\ has(m.address)
                   /\ c \in announcedCaps[m.address].publishedChatIds
                   /\ \/ announcedCaps[m.address].messageIds[c] = 0
                      \/ Failure(m.address, c, "edit") \in lastOp'.failed]_vars

====
